---- MODULE Spec2Model ----
(***************************************************************************)
(* Model of the data acquisition and freshness pipeline of TawinCWA:       *)
(* the SQLite store (database/db_manager.py) and the data service          *)
(* (crawler/data_service.py).                                              *)
(*                                                                         *)
(* Time is counted in ticks of half an hour (the finest refresh threshold  *)
(* of the service).  `now` is the UTC clock; the local clock is now + tz.  *)
(* SQLite's CURRENT_TIMESTAMP is UTC text "YYYY-MM-DD HH:MM:SS"; Python's  *)
(* datetime.now().isoformat() is local text "YYYY-MM-DDTHH:MM:SS.ffffff".  *)
(* Both are modelled as <<date, separator, time of day>> and compared as   *)
(* SQLite compares TEXT: left to right.                                    *)
(***************************************************************************)
EXTENDS Integers, Sequences, FiniteSets, TLC

\* ------------------------------------------------------------------ bounds
MaxClock == 8          \* the service clock runs for 4 hours (in ticks)
MaxDays == 1           \* the store clock runs for 1 day
MaxItems == 1          \* locations / earthquakes of one fetched payload
MaxServiceWrites == 3  \* rows inserted in one run of the service
MaxWrites == 2         \* rows inserted in one run of the store
MaxBatch == 2          \* rows of one DataFrame handed to a save
NumSessions == 2       \* sessions calling the shared service
MaxAge == 13           \* largest finite data age fed to the health score
MaxRetention == 1      \* largest days_to_keep passed to cleanup
MaxFetchClock == 10    \* the fetcher's wall clock runs for 5 seconds
MaxParseItems == 2     \* locations / earthquakes of one payload to parse
MaxCatalogClock == 36  \* the catalog crawlers' clock runs for 36 hours
MaxCatalogCalls == 2   \* calls made to the catalog crawlers in one run
MaxResources == 2      \* resources listed by one dataset's metadata
MaxNameLen == 2        \* characters of one column name
MaxRows == 2           \* rows of one table handed to clean_dataset
MaxColumns == 2        \* columns of one table handed to clean_dataset

\* ------------------------------------------------------------- time model
TicksPerHour == 2
TicksPerDay == 24 * TicksPerHour
SepSpace == 32         \* ' ' of "YYYY-MM-DD HH:MM:SS"
SepT == 84             \* 'T' of "YYYY-MM-DDTHH:MM:SS"
TZOffsets == {0, 8 * TicksPerHour}     \* UTC host, Asia/Taipei host

NULL == -1               \* SQL NULL / Python None in a numeric position
NullText == "NULL"       \* SQL NULL / Python None in a text position
NoStamp == <<>>          \* None where a stored timestamp is expected
Infinity == 1000000      \* float('inf')

\* CURRENT_TIMESTAMP at UTC tick t
CurrentTimestamp(t) == <<t \div TicksPerDay, SepSpace, t % TicksPerDay>>
\* datetime(...).isoformat() of the local tick t
isoformat(t) == <<t \div TicksPerDay, SepT, t % TicksPerDay>>
\* the instant a stored text denotes, in ticks
StampTick(s) == s[1] * TicksPerDay + s[3]
\* TEXT comparison a < b
TextLess(a, b) ==
    \/ a[1] < b[1]
    \/ a[1] = b[1] /\ a[2] < b[2]
    \/ a[1] = b[1] /\ a[2] = b[2] /\ a[3] < b[3]

\* ------------------------------------------------------------ input sets
Locations == {"Taipei", "Tainan"}
StartTimes == {"P1"}
TempValues == {25, 26}
ForecastRecords ==
    [location : Locations, start_time : StartTimes, T_value : TempValues]

EqNos == {"2024001", ""}
Magnitudes == {42, 45}                 \* tenths: "4.2", "4.5"
Depths == {NULL, 10}
QuakeRecords ==
    [earthquake_no : EqNos, magnitude_value : Magnitudes, depth : Depths]

Batches(S) == UNION {[1..n -> S] : n \in 1..MaxBatch}

DataTypes == {"weather_forecasts", "earthquakes"}
GetOps == {"get_weather_forecast_data", "get_earthquake_data"}
Endpoints == {"F-A0010-001", "E-A0015-001"}

VARIABLES
    now,              \* UTC clock, ticks
    tz,               \* local clock = now + tz
    weather_forecasts,\* table weather_forecasts
    earthquakes,      \* table earthquakes
    api_logs,         \* table api_logs
    data_freshness,   \* table data_freshness
    nextId,           \* AUTOINCREMENT counters, per table
    crawlers,         \* WeatherDataService.crawlers (the keys)
    lastOp,           \* the last call made and what it returned
    threads,          \* sessions sharing the service: what each is doing
    health,           \* arguments and result of _calculate_health_score
    http,             \* the crawler's _make_request calls and the wall clock
    parse,            \* a payload handed to the processor, and its result
    catalog,          \* the catalog crawlers: clock, cache files, last call
    frame             \* a table handed to clean_dataset, and its result

vars == <<now, tz, weather_forecasts, earthquakes, api_logs, data_freshness,
          nextId, crawlers, lastOp, threads, health, http, parse, catalog,
          frame>>

LocalNow == now + tz

\* no session is inside a call; no health score was asked for
NoThreads == <<>>
NoHealth == [computed |-> FALSE]
\* no request was made; no payload was handed to the processor
NoHttp == [clock |-> 0]
NoParse == [done |-> FALSE]
\* no catalog crawler was used; no table was handed to clean_dataset
NoCatalog == [calls |-> 0]
NoFrame == [done |-> FALSE]

\* ------------------------------------------------------------ the store
\* init_database: five empty tables
init_database ==
    /\ weather_forecasts = {}
    /\ earthquakes = {}
    /\ api_logs = {}
    /\ data_freshness = {}
    /\ nextId = [weather_forecasts |-> 0, earthquakes |-> 0, api_logs |-> 0]

\* UNIQUE(location, forecast_time, start_time)
ForecastConflict(r, row) ==
    /\ r.location = row.location
    /\ r.forecast_time = row.forecast_time
    /\ r.start_time = row.start_time

\* the row one iteration of save_weather_forecast binds; forecast_time is
\* datetime.now().isoformat() with microseconds, which differs from one
\* execute to the next: its sub-tick part is the insertion number
ForecastRow(rec, id, utc, local) ==
    [id |-> id,
     location |-> rec.location,
     forecast_time |-> <<isoformat(local), id>>,
     temperature |-> rec.T_value,
     start_time |-> rec.start_time,
     created_at |-> CurrentTimestamp(utc)]

\* INSERT OR REPLACE INTO weather_forecasts for the first k rows of batch
RECURSIVE InsertForecasts(_, _, _, _, _, _)
InsertForecasts(tbl, batch, k, id0, utc, local) ==
    IF k = 0 THEN tbl
    ELSE LET prev == InsertForecasts(tbl, batch, k - 1, id0, utc, local)
             row == ForecastRow(batch[k], id0 + k, utc, local)
         IN  {r \in prev : ~ForecastConflict(r, row)} \cup {row}

\* a UNIQUE constraint spanning the number and the magnitude
QuakeConflict_keyed_with_magnitude(r, row) ==
    /\ r.earthquake_no = row.earthquake_no
    /\ r.magnitude_value = row.magnitude_value

\* earthquake_no TEXT UNIQUE
QuakeConflict(r, row) == r.earthquake_no = row.earthquake_no

\* float(x) if x else None: a missing or zero value is stored as NULL
ToFloat(x) == IF x = NULL \/ x = 0 THEN NULL ELSE x

QuakeRow(rec, id, utc) ==
    [id |-> id,
     earthquake_no |-> rec.earthquake_no,
     magnitude_value |-> ToFloat(rec.magnitude_value),
     depth |-> ToFloat(rec.depth),
     created_at |-> CurrentTimestamp(utc)]

\* INSERT OR REPLACE INTO earthquakes for the first k rows of batch
RECURSIVE InsertQuakes(_, _, _, _, _)
InsertQuakes(tbl, batch, k, id0, utc) ==
    IF k = 0 THEN tbl
    ELSE LET prev == InsertQuakes(tbl, batch, k - 1, id0, utc)
             row == QuakeRow(batch[k], id0 + k, utc)
         IN  {r \in prev : ~QuakeConflict(r, row)} \cup {row}

\* _update_data_freshness: INSERT OR REPLACE keyed by data_type; an
\* sqlite error is logged and swallowed (ok = FALSE)
update_data_freshness(tbl, data_type, record_count, local, ok) ==
    IF ok
    THEN {r \in tbl : r.data_type # data_type} \cup
         {[data_type |-> data_type, last_update |-> isoformat(local),
           record_count |-> record_count]}
    ELSE tbl

\* Outcome of save_weather_forecast(batch).  fail = NULL: every execute and
\* the commit succeed.  fail = k: sqlite raises after k rows were executed
\* (k = Len(batch): at commit); the connection rolls back, the except
\* clause logs, and records_saved = k is returned all the same.
SaveForecastResult(batch, fail, freshOk) ==
    LET n == Len(batch)
        committed == fail = NULL
    IN  [table |-> IF committed
                   THEN InsertForecasts(weather_forecasts, batch, n,
                                        nextId.weather_forecasts, now, LocalNow)
                   ELSE weather_forecasts,
         ids |-> IF committed THEN nextId.weather_forecasts + n
                 ELSE nextId.weather_forecasts,
         freshness |-> IF committed
                       THEN update_data_freshness(data_freshness,
                                "weather_forecasts", n, LocalNow, freshOk)
                       ELSE data_freshness,
         committed |-> committed,
         records_saved |-> IF committed THEN n ELSE fail]

SaveQuakeResult(batch, fail, freshOk) ==
    LET n == Len(batch)
        committed == fail = NULL
    IN  [table |-> IF committed
                   THEN InsertQuakes(earthquakes, batch, n,
                                     nextId.earthquakes, now)
                   ELSE earthquakes,
         ids |-> IF committed THEN nextId.earthquakes + n
                 ELSE nextId.earthquakes,
         freshness |-> IF committed
                       THEN update_data_freshness(data_freshness,
                                "earthquakes", n, LocalNow, freshOk)
                       ELSE data_freshness,
         committed |-> committed,
         records_saved |-> IF committed THEN n ELSE fail]

FailPoints(batch) == {NULL} \cup (0..Len(batch))

Written == nextId.weather_forecasts + nextId.earthquakes + nextId.api_logs

\* WeatherDBManager.save_weather_forecast called on the store
save_weather_forecast ==
    \E batch \in Batches(ForecastRecords), freshOk \in BOOLEAN :
      \E fail \in FailPoints(batch) :
        \E res \in {SaveForecastResult(batch, fail, freshOk)} :
        /\ Written + Len(batch) <= MaxWrites
        /\ weather_forecasts' = res.table
        /\ data_freshness' = res.freshness
        /\ nextId' = [nextId EXCEPT !.weather_forecasts = res.ids]
        /\ lastOp' = [op |-> "save_weather_forecast", batch |-> batch,
                      committed |-> res.committed,
                      returned |-> res.records_saved]
        /\ UNCHANGED <<catalog, frame, http, parse, threads, health, now, tz, crawlers, earthquakes, api_logs>>

\* WeatherDBManager.save_earthquake_data called on the store
save_earthquake_data ==
    \E batch \in Batches(QuakeRecords), freshOk \in BOOLEAN :
      \E fail \in FailPoints(batch) :
        \E res \in {SaveQuakeResult(batch, fail, freshOk)} :
        /\ Written + Len(batch) <= MaxWrites
        /\ earthquakes' = res.table
        /\ data_freshness' = res.freshness
        /\ nextId' = [nextId EXCEPT !.earthquakes = res.ids]
        /\ lastOp' = [op |-> "save_earthquake_data", batch |-> batch,
                      committed |-> res.committed,
                      returned |-> res.records_saved]
        /\ UNCHANGED <<catalog, frame, http, parse, threads, health, now, tz, crawlers, weather_forecasts, api_logs>>

\* a log row that records every call as successful
LogRow_marking_success(endpoint, success, records, error, id, utc) ==
    [id |-> id, endpoint |-> endpoint, success |-> TRUE,
     records_processed |-> records, error_message |-> error,
     called_at |-> CurrentTimestamp(utc)]

\* log_api_call: plain INSERT; an sqlite error is logged and swallowed
LogRow(endpoint, success, records, error, id, utc) ==
    [id |-> id, endpoint |-> endpoint, success |-> success,
     records_processed |-> records, error_message |-> error,
     called_at |-> CurrentTimestamp(utc)]

LogApiCallResult(endpoint, success, records, error, ok) ==
    IF ok
    THEN [table |-> api_logs \cup
                    {LogRow(endpoint, success, records, error,
                            nextId.api_logs + 1, now)},
          ids |-> nextId.api_logs + 1]
    ELSE [table |-> api_logs, ids |-> nextId.api_logs]

log_api_call ==
    \E endpoint \in Endpoints, success \in BOOLEAN, ok \in BOOLEAN :
        LET res == LogApiCallResult(endpoint, success, 0,
                       IF success THEN NullText ELSE "No data returned", ok) IN
        /\ Written + 1 <= MaxWrites
        /\ api_logs' = res.table
        /\ nextId' = [nextId EXCEPT !.api_logs = res.ids]
        /\ lastOp' = [op |-> "log_api_call"]
        /\ UNCHANGED <<catalog, frame, http, parse, threads, health, now, tz, crawlers, weather_forecasts,
                       earthquakes, data_freshness>>

\* cutoff_date = (datetime.now() - timedelta(days=d)).isoformat()
CutoffDate(local, d) == isoformat(local - d * TicksPerDay)

\* DELETE FROM t WHERE created_at < ?
DeleteOlder(tbl, cutoff) == {r \in tbl : ~TextLess(r.created_at, cutoff)}
DeleteOlderLogs(tbl, cutoff) == {r \in tbl : ~TextLess(r.called_at, cutoff)}

\* WeatherDBManager.cleanup_old_data(days_to_keep); ok = FALSE: sqlite
\* raises before the commit and the deletes roll back
cleanup_old_data ==
    \E days \in 0..MaxRetention, ok \in BOOLEAN :
        LET cutoff == CutoffDate(LocalNow, days)
            earthquake_cutoff == CutoffDate(LocalNow, days * 2)
        IN
        /\ weather_forecasts' =
               IF ok THEN DeleteOlder(weather_forecasts, cutoff)
               ELSE weather_forecasts
        /\ api_logs' = IF ok THEN DeleteOlderLogs(api_logs, cutoff)
                       ELSE api_logs
        /\ earthquakes' =
               IF ok THEN DeleteOlder(earthquakes, earthquake_cutoff)
               ELSE earthquakes
        /\ lastOp' = [op |-> "cleanup_old_data", days |-> days,
                      weather_deleted |-> weather_forecasts \ weather_forecasts',
                      logs_deleted |-> api_logs \ api_logs',
                      eq_deleted |-> earthquakes \ earthquakes']
        /\ UNCHANGED <<catalog, frame, http, parse, threads, health, now, tz, crawlers, data_freshness, nextId>>

\* half a day passes
HalfDay ==
    /\ now + TicksPerDay \div 2 <= MaxDays * TicksPerDay
    /\ now' = now + TicksPerDay \div 2
    /\ lastOp' = [op |-> "tick"]
    /\ UNCHANGED <<catalog, frame, http, parse, threads, health, tz, crawlers, weather_forecasts,
                   earthquakes, api_logs, data_freshness, nextId>>

\* a store opened by a service that has its crawler
InitStore ==
    /\ catalog = NoCatalog
    /\ frame = NoFrame
    /\ now = 0
    /\ tz \in TZOffsets
    /\ crawlers = {"taiwan_cwa"}
    /\ init_database
    /\ lastOp = [op |-> "init"]
    /\ threads = NoThreads
    /\ health = NoHealth
    /\ http = NoHttp
    /\ parse = NoParse

NextStore ==
    \/ save_weather_forecast
    \/ save_earthquake_data
    \/ log_api_call
    \/ cleanup_old_data
    \/ HalfDay

SpecStore == InitStore /\ [][NextStore]_vars

\* ------------------------------------------------------ the data service
\* a service whose every data type falls back to the default of 6 hours
refresh_thresholds_default_only(data_type) == 6 * TicksPerHour

\* refresh_thresholds, in ticks
refresh_thresholds(data_type) ==
    CASE data_type = "weather_forecasts" -> 3 * TicksPerHour
      [] data_type = "earthquakes" -> 1 * TicksPerHour
      [] data_type = "weather_observations" -> TicksPerHour \div 2
      [] OTHER -> 6 * TicksPerHour

\* _calculate_data_age_hours of a stored last_update, in ticks
calculate_data_age(last_update, local) == local - StampTick(last_update)

HasFreshness(data_type) == \E r \in data_freshness : r.data_type = data_type
FreshnessOf(data_type) ==
    CHOOSE r \in data_freshness : r.data_type = data_type

\* _needs_data_refresh refreshing from age = threshold on
needs_data_refresh_at_threshold(data_type, force_refresh) ==
    IF force_refresh THEN TRUE
    ELSE IF ~HasFreshness(data_type) THEN TRUE
    ELSE calculate_data_age(FreshnessOf(data_type).last_update, LocalNow)
             >= refresh_thresholds(data_type)

\* _needs_data_refresh deciding from the freshness entry alone
needs_data_refresh_ignoring_force(data_type, force_refresh) ==
    IF ~HasFreshness(data_type) THEN TRUE
    ELSE calculate_data_age(FreshnessOf(data_type).last_update, LocalNow)
             > refresh_thresholds(data_type)

\* _needs_data_refresh
needs_data_refresh(data_type, force_refresh) ==
    IF force_refresh THEN TRUE
    ELSE IF ~HasFreshness(data_type) THEN TRUE
    ELSE calculate_data_age(FreshnessOf(data_type).last_update, LocalNow)
             > refresh_thresholds(data_type)

\* What crawler.get_dataset_data hands back: an exception, None (request
\* or JSON decoding failed), or decoded JSON with or without its root keys.
PayloadKinds == {"raise", "None", "no_cwaopendata", "no_dataset", "ok"}
Items(S) == UNION {[1..n -> S] : n \in 0..MaxItems}
Payloads(S) ==
    {[kind |-> k, items |-> <<>>] : k \in PayloadKinds \ {"ok"}} \cup
    {[kind |-> "ok", items |-> b] : b \in Items(S)}

\* One refresh cycle's environment: the payload fetched and, where the
\* cycle gets that far, how sqlite answers the save (fail, freshOk) and
\* the log insert (logOk).  The service runs are explored with the log
\* insert succeeding; log_api_call's failure is explored on the store.
LogOutcomes == {TRUE}
RefreshOutcomes(S) ==
    {[raw |-> r, fail |-> NULL, freshOk |-> TRUE, logOk |-> l] :
        r \in {q \in Payloads(S) : Len(q.items) = 0}, l \in LogOutcomes}
    \cup
    {[raw |-> r, fail |-> NULL, freshOk |-> f, logOk |-> l] :
        r \in {q \in Payloads(S) : Len(q.items) > 0},
        f \in BOOLEAN, l \in LogOutcomes}
    \cup
    UNION {{[raw |-> r, fail |-> k, freshOk |-> TRUE, logOk |-> l] :
               k \in 0..Len(r.items), l \in LogOutcomes} :
           r \in {q \in Payloads(S) : Len(q.items) > 0}}

\* process_weather_forecast / process_earthquake_data: None when the root
\* key is missing or the lookup of 'dataset' raises, else one row per item
NoneFrame == [frame |-> FALSE, rows |-> <<>>]
process_payload(raw) ==
    IF raw.kind = "no_cwaopendata" THEN NoneFrame
    ELSE IF raw.kind = "no_dataset" THEN NoneFrame
    ELSE [frame |-> TRUE, rows |-> raw.items]

\* df is None or df.empty
NoneOrEmpty(df) == ~df.frame \/ Len(df.rows) = 0

\* get_latest_weather_forecasts(hours_back): WHERE created_at > cutoff
get_latest_weather_forecasts(tbl, local, hours_back) ==
    {r \in tbl :
        TextLess(isoformat(local - hours_back * TicksPerHour), r.created_at)}

\* get_recent_earthquakes(days_back, min_magnitude):
\* WHERE created_at > cutoff AND magnitude_value >= min_magnitude
get_recent_earthquakes(tbl, local, days_back, min_magnitude) ==
    {r \in tbl :
        /\ TextLess(isoformat(local - days_back * TicksPerDay), r.created_at)
        /\ r.magnitude_value # NULL
        /\ r.magnitude_value >= min_magnitude}

\* 'is_fresh' written as the refresh decision itself
is_fresh_inverted(needs_refresh) == needs_refresh

\* metadata 'is_fresh': not needs_refresh
is_fresh(needs_refresh) == ~needs_refresh

\* an early return that also stamps the freshness entry of the endpoint
EarlyReturn_stamping_freshness(endpoint, table, ids, fetches, error, logOk) ==
    [table |-> table, ids |-> ids,
     freshness |-> update_data_freshness(data_freshness,
                       IF endpoint = "F-A0010-001" THEN "weather_forecasts"
                       ELSE "earthquakes", 0, LocalNow, TRUE),
     log |-> IF fetches = 0
             THEN [table |-> api_logs, ids |-> nextId.api_logs]
             ELSE LogApiCallResult(endpoint, FALSE, 0, error, logOk),
     success |-> FALSE, fetches |-> fetches,
     save_called |-> FALSE, committed |-> FALSE]

\* the `return False` exits of _fetch_and_store_*: no crawler (nothing
\* fetched, nothing logged), or a failure logged with log_api_call
EarlyReturn(endpoint, table, ids, fetches, error, logOk) ==
    [table |-> table, ids |-> ids, freshness |-> data_freshness,
     log |-> IF fetches = 0
             THEN [table |-> api_logs, ids |-> nextId.api_logs]
             ELSE LogApiCallResult(endpoint, FALSE, 0, error, logOk),
     success |-> FALSE, fetches |-> fetches,
     save_called |-> FALSE, committed |-> FALSE]

\* _fetch_and_store_weather_data / _fetch_and_store_earthquake_data, as the
\* effect on (table, AUTOINCREMENT, freshness, log) and the value returned.
\* saved is what db.save_weather_forecast(df) / db.save_earthquake_data(df)
\* does with the processed frame, read only where the code calls it.
FetchAndStore(endpoint, table, ids, raw, saved, logOk) ==
    IF "taiwan_cwa" \notin crawlers
    THEN EarlyReturn(endpoint, table, ids, 0, NullText, logOk)
    ELSE IF raw.kind = "raise"
    THEN EarlyReturn(endpoint, table, ids, 1, "str(e)", logOk)
    ELSE IF raw.kind = "None"
    THEN EarlyReturn(endpoint, table, ids, 1, "No data returned", logOk)
    ELSE IF NoneOrEmpty(process_payload(raw))
    THEN EarlyReturn(endpoint, table, ids, 1, "Data processing failed", logOk)
    ELSE LET res == saved IN
         [table |-> res.table, ids |-> res.ids, freshness |-> res.freshness,
          log |-> LogApiCallResult(endpoint, TRUE, res.records_saved,
                                   NullText, logOk),
          success |-> TRUE, fetches |-> 1,
          save_called |-> TRUE, committed |-> res.committed]

\* the metadata dictionary of a getData call, read after the refresh:
\* _get_last_update and _get_data_age look the type up in data_freshness
call_metadata(data_type, rows, freshness, needs_refresh) ==
    LET has == \E r \in freshness : r.data_type = data_type
        entry == CHOOSE r \in freshness : r.data_type = data_type
    IN  [record_count |-> Cardinality(rows),
         last_update |-> IF has THEN entry.last_update ELSE NoStamp,
         data_age_hours |->
             IF has THEN calculate_data_age(entry.last_update, LocalNow)
             ELSE Infinity,
         is_fresh |-> is_fresh(needs_refresh),
         source |-> "Taiwan CWA API"]

\* rows a refresh cycle with environment o inserts (data and log)
WritesOf(o) ==
    IF "taiwan_cwa" \notin crawlers THEN 0
    ELSE (IF o.logOk THEN 1 ELSE 0)
         + (IF o.raw.kind = "ok" /\ o.fail = NULL THEN Len(o.raw.items)
            ELSE 0)

ForecastCall(force_refresh, needs_refresh, raw, res, table, freshness) ==
    [op |-> "get_weather_forecast_data", at |-> now, raw |-> raw,
     metadata |-> call_metadata("weather_forecasts",
                      get_latest_weather_forecasts(table, LocalNow, 24),
                      freshness, needs_refresh),
     force_refresh |-> force_refresh,
     needs_refresh |-> needs_refresh,
     fetches |-> res.fetches,
     success |-> res.success,
     save_called |-> res.save_called,
     committed |-> res.committed,
     raised |-> FALSE,
     rows |-> get_latest_weather_forecasts(table, LocalNow, 24),
     is_fresh |-> is_fresh(needs_refresh)]

\* a call that starts no refresh cycle: nothing fetched
NoPayload == [kind |-> "None", items |-> <<>>]
NoRefresh ==
    [fetches |-> 0, success |-> FALSE, save_called |-> FALSE,
     committed |-> FALSE]

\* get_weather_forecast_data from the refresh on, under environment o:
\* _fetch_and_store_weather_data, the read, the metadata
ForecastRefresh(force_refresh, o) ==
    /\ Written + WritesOf(o) <= MaxServiceWrites
    /\ LET saved == SaveForecastResult(process_payload(o.raw).rows, o.fail,
                                        o.freshOk) IN
        \E res \in {FetchAndStore("F-A0010-001", weather_forecasts,
                        nextId.weather_forecasts, o.raw, saved, o.logOk)} :
        /\ weather_forecasts' = res.table
        /\ data_freshness' = res.freshness
        /\ api_logs' = res.log.table
        /\ nextId' = [nextId EXCEPT !.weather_forecasts = res.ids,
                                    !.api_logs = res.log.ids]
        /\ lastOp' = ForecastCall(force_refresh, TRUE, o.raw, res, res.table,
                                  res.freshness)
        /\ UNCHANGED <<catalog, frame, http, parse, health, now, tz, crawlers, earthquakes>>

\* get_weather_forecast_data when no refresh is needed: the read alone
ForecastRead(force_refresh) ==
    /\ lastOp' = ForecastCall(force_refresh, FALSE, NoPayload, NoRefresh,
                              weather_forecasts, data_freshness)
    /\ UNCHANGED <<catalog, frame, http, parse, health, now, tz, crawlers, weather_forecasts, earthquakes,
                   api_logs, data_freshness, nextId>>

\* WeatherDataService.get_weather_forecast_data(force_refresh)
get_weather_forecast_data ==
    /\ \E force_refresh \in BOOLEAN :
        IF needs_data_refresh("weather_forecasts", force_refresh)
        THEN \E o \in RefreshOutcomes(ForecastRecords) :
                 ForecastRefresh(force_refresh, o)
        ELSE ForecastRead(force_refresh)
    /\ UNCHANGED threads

DaysBack == {7}
MinMagnitudes == {0}

QuakeCall(force_refresh, needs_refresh, raw, res, table, freshness, days_back, min_magnitude) ==
    [op |-> "get_earthquake_data", at |-> now, raw |-> raw,
     metadata |-> call_metadata("earthquakes",
                      get_recent_earthquakes(table, LocalNow, days_back,
                                             min_magnitude),
                      freshness, needs_refresh)
                  @@ [filters |-> [days_back |-> days_back,
                                   min_magnitude |-> min_magnitude]],
     force_refresh |-> force_refresh,
     needs_refresh |-> needs_refresh,
     fetches |-> res.fetches,
     success |-> res.success,
     save_called |-> res.save_called,
     committed |-> res.committed,
     raised |-> FALSE,
     rows |-> get_recent_earthquakes(table, LocalNow, days_back,
                                     min_magnitude),
     days_back |-> days_back,
     min_magnitude |-> min_magnitude,
     is_fresh |-> is_fresh(needs_refresh)]

\* get_earthquake_data from the refresh on, under environment o
QuakeRefresh(force_refresh, days_back, min_magnitude, o) ==
    /\ Written + WritesOf(o) <= MaxServiceWrites
    /\ LET saved == SaveQuakeResult(process_payload(o.raw).rows, o.fail,
                                     o.freshOk) IN
        \E res \in {FetchAndStore("E-A0015-001", earthquakes,
                        nextId.earthquakes, o.raw, saved, o.logOk)} :
        /\ earthquakes' = res.table
        /\ data_freshness' = res.freshness
        /\ api_logs' = res.log.table
        /\ nextId' = [nextId EXCEPT !.earthquakes = res.ids,
                                    !.api_logs = res.log.ids]
        /\ lastOp' = QuakeCall(force_refresh, TRUE, o.raw, res, res.table,
                               res.freshness, days_back, min_magnitude)
        /\ UNCHANGED <<catalog, frame, http, parse, health, now, tz, crawlers, weather_forecasts>>

\* get_earthquake_data when no refresh is needed: the read alone
QuakeRead(force_refresh, days_back, min_magnitude) ==
    /\ lastOp' = QuakeCall(force_refresh, FALSE, NoPayload, NoRefresh,
                           earthquakes, data_freshness, days_back,
                           min_magnitude)
    /\ UNCHANGED <<catalog, frame, http, parse, health, now, tz, crawlers, weather_forecasts, earthquakes,
                   api_logs, data_freshness, nextId>>

\* WeatherDataService.get_earthquake_data(force_refresh, days_back,
\* min_magnitude)
get_earthquake_data ==
    /\ \E force_refresh \in BOOLEAN, days_back \in DaysBack,
          min_magnitude \in MinMagnitudes :
        IF needs_data_refresh("earthquakes", force_refresh)
        THEN \E o \in RefreshOutcomes(QuakeRecords) :
                 QuakeRefresh(force_refresh, days_back, min_magnitude, o)
        ELSE QuakeRead(force_refresh, days_back, min_magnitude)
    /\ UNCHANGED threads

\* three or four hours pass between two calls
ClockSteps == {3 * TicksPerHour, 4 * TicksPerHour}
Advance ==
    \E d \in ClockSteps :
        /\ now + d <= MaxClock
        /\ now' = now + d
        /\ UNCHANGED <<catalog, frame, http, parse, threads, health, tz, crawlers, weather_forecasts,
                       earthquakes, api_logs, data_freshness, nextId, lastOp>>

\* WeatherDataService.__init__ over a fresh database file
Init ==
    /\ catalog = NoCatalog
    /\ frame = NoFrame
    /\ now = 0
    /\ tz \in TZOffsets
    /\ crawlers \in {{}, {"taiwan_cwa"}}
    /\ init_database
    /\ lastOp = [op |-> "init"]
    /\ threads = NoThreads
    /\ health = NoHealth
    /\ http = NoHttp
    /\ parse = NoParse

Next ==
    \/ get_weather_forecast_data
    \/ get_earthquake_data
    \/ Advance

Spec == Init /\ [][Next]_vars

\* ------------------------------------------- sessions sharing the service
\* The applications keep one WeatherDataService per process
\* (st.cache_resource) and call it from every session's thread.  A call is
\* split where it blocks on the upstream request: BeginCall runs up to
\* crawler.get_dataset_data, EndCall from its return to the end.
Sessions == 1..NumSessions
IdleThreads == [t \in Sessions |-> [pc |-> "idle"]]

DataTypeOf(op) ==
    IF op = "get_weather_forecast_data" THEN "weather_forecasts"
    ELSE "earthquakes"

BeginCall(t) ==
    /\ threads[t].pc = "idle"
    /\ \E op \in GetOps, force_refresh \in BOOLEAN :
        IF needs_data_refresh(DataTypeOf(op), force_refresh)
        THEN /\ threads' = [threads EXCEPT ![t] =
                    [pc |-> "get_dataset_data", op |-> op,
                     force_refresh |-> force_refresh]]
             /\ UNCHANGED <<catalog, frame, http, parse, health, now, tz, crawlers, weather_forecasts,
                            earthquakes, api_logs, data_freshness, nextId,
                            lastOp>>
        ELSE /\ IF op = "get_weather_forecast_data"
                THEN ForecastRead(force_refresh)
                ELSE \E days_back \in DaysBack,
                        min_magnitude \in MinMagnitudes :
                         QuakeRead(force_refresh, days_back, min_magnitude)
             /\ UNCHANGED threads

EndCall(t) ==
    /\ threads[t].pc = "get_dataset_data"
    /\ IF threads[t].op = "get_weather_forecast_data"
       THEN \E o \in RefreshOutcomes(ForecastRecords) :
                ForecastRefresh(threads[t].force_refresh, o)
       ELSE \E o \in RefreshOutcomes(QuakeRecords),
               days_back \in DaysBack, min_magnitude \in MinMagnitudes :
                QuakeRefresh(threads[t].force_refresh, days_back,
                             min_magnitude, o)
    /\ threads' = [threads EXCEPT ![t] = [pc |-> "idle"]]

InitSessions ==
    /\ catalog = NoCatalog
    /\ frame = NoFrame
    /\ now = 0
    /\ tz = 0
    /\ crawlers = {"taiwan_cwa"}
    /\ init_database
    /\ lastOp = [op |-> "init"]
    /\ threads = IdleThreads
    /\ health = NoHealth
    /\ http = NoHttp
    /\ parse = NoParse

NextSessions == \E t \in Sessions : BeginCall(t) \/ EndCall(t)

SpecSessions == InitSessions /\ [][NextSessions]_vars

\* C6: for each data type at most one refresh is in flight: no two sessions
\* wait on an upstream request for the same type at the same time.
C6_OneRefreshInFlightPerType ==
    \A t1, t2 \in Sessions :
        (/\ t1 # t2
         /\ threads[t1].pc = "get_dataset_data"
         /\ threads[t2].pc = "get_dataset_data")
            => threads[t1].op # threads[t2].op

\* ------------------------------------------------------- the health score
\* Scores are kept in tenths of a point, so that (100 - rate) / 2 and
\* (size - 100) / 10 stay integral; ages are ticks or float('inf').
ScoreScale == 10
HealthAges == (0..MaxAge) \cup {Infinity}
SuccessRates == {0, 79, 80, 100}
DbSizes == {0, 101, 300, 1000}

Min(a, b) == IF a < b THEN a ELSE b
Max(a, b) == IF a > b THEN a ELSE b

\* the loop body with the "very old" deduction mistyped as 2
StalenessDeduction_mistyped(age_hours, threshold) ==
    IF age_hours > threshold * 2 THEN 2
    ELSE IF age_hours > threshold THEN 10
    ELSE 0

\* the loop body of _calculate_health_score: points lost by one data type
StalenessDeduction(age_hours, threshold) ==
    IF age_hours > threshold * 2 THEN 20
    ELSE IF age_hours > threshold THEN 10
    ELSE 0

RECURSIVE StalenessSum(_, _)
StalenessSum(freshness_info, types) ==
    IF types = {} THEN 0
    ELSE LET t == CHOOSE x \in types : TRUE IN
         StalenessDeduction(freshness_info[t], refresh_thresholds(t))
             + StalenessSum(freshness_info, types \ {t})

\* a return statement that only caps the score from above
ClampScore_upper_only(score) == Min(100 * ScoreScale, score)

\* return max(0.0, min(100.0, score))
ClampScore(score) == Max(0, Min(100 * ScoreScale, score))

\* _calculate_health_score(freshness_info, db_stats), in tenths
calculate_health_score(freshness_info, db_stats) ==
    LET stale == StalenessSum(freshness_info, DOMAIN freshness_info)
                     * ScoreScale
        api == IF db_stats.api_success_rate < 80
               THEN ((100 - db_stats.api_success_rate) * ScoreScale) \div 2
               ELSE 0
        size == IF db_stats.db_size_mb > 100
                THEN Min(20 * ScoreScale,
                         ((db_stats.db_size_mb - 100) * ScoreScale) \div 10)
                ELSE 0
    IN  ClampScore(100 * ScoreScale - stale - api - size)

\* the loop body with the "very old" message from 3 * threshold on
RecommendationFor_at_threshold(data_type, age_hours, threshold) ==
    IF age_hours >= threshold * 3
    THEN <<[level |-> "very_old", data_type |-> data_type,
            age_hours |-> age_hours]>>
    ELSE IF age_hours > threshold * 2
    THEN <<[level |-> "refresh_soon", data_type |-> data_type,
            age_hours |-> age_hours]>>
    ELSE <<>>

\* the loop body without its "refresh soon" branch
RecommendationFor_very_old_only(data_type, age_hours, threshold) ==
    IF age_hours > threshold * 3
    THEN <<[level |-> "very_old", data_type |-> data_type,
            age_hours |-> age_hours]>>
    ELSE <<>>

\* the loop body of _get_recommendations: the messages one data type adds
RecommendationFor(data_type, age_hours, threshold) ==
    IF age_hours > threshold * 3
    THEN <<[level |-> "very_old", data_type |-> data_type,
            age_hours |-> age_hours]>>
    ELSE IF age_hours > threshold * 2
    THEN <<[level |-> "refresh_soon", data_type |-> data_type,
            age_hours |-> age_hours]>>
    ELSE <<>>

\* the loop of _get_recommendations over freshness_info.items(), which
\* get_data_freshness_info fills in the order of its query (ORDER BY
\* last_update DESC: smallest age first)
RECURSIVE RecommendationLoop(_, _)
RecommendationLoop(freshness_info, types) ==
    IF types = {} THEN <<>>
    ELSE LET t == CHOOSE x \in types :
                      \A y \in types : freshness_info[x] <= freshness_info[y]
         IN  RecommendationFor(t, freshness_info[t], refresh_thresholds(t))
                 \o RecommendationLoop(freshness_info, types \ {t})

\* _get_recommendations(freshness_info)
AllFresh == [level |-> "all_fresh"]
get_recommendations(freshness_info) ==
    LET recommendations ==
            RecommendationLoop(freshness_info, DOMAIN freshness_info)
    IN  IF recommendations = <<>> THEN <<AllFresh>> ELSE recommendations

\* freshness_info dictionaries: any subset of the data types, any ages
FreshnessInfos == UNION {[S -> HealthAges] : S \in SUBSET DataTypes}

\* freshness_info with the age of at most one data type grown
Older(info) ==
    {info} \cup
    UNION {{[info EXCEPT ![t] = a] :
               a \in {x \in HealthAges : x >= info[t]}} :
           t \in DOMAIN info}

\* whether health holds inputs not yet scored: a freshness_info, the same
\* with at most one age grown, and the figures of get_database_stats
HealthInputs ==
    \E f \in FreshnessInfos :
        \E g \in Older(f) :
            \E d \in [api_success_rate : SuccessRates, db_size_mb : DbSizes] :
                health = [computed |-> FALSE, freshness_info |-> f,
                          older_info |-> g, db_stats |-> d]

\* _calculate_health_score applied to the inputs, and to the older inputs
CalculateHealthScore ==
    /\ ~health.computed
    /\ health' = [health EXCEPT
           !.computed = TRUE] @@
           [score |-> calculate_health_score(health.freshness_info,
                                             health.db_stats),
            older_score |-> calculate_health_score(health.older_info,
                                                   health.db_stats),
            recommendations |-> get_recommendations(health.freshness_info)]
    /\ UNCHANGED <<catalog, frame, http, parse, now, tz, crawlers, weather_forecasts, earthquakes,
                   api_logs, data_freshness, nextId, lastOp, threads>>

InitHealth ==
    /\ catalog = NoCatalog
    /\ frame = NoFrame
    /\ now = 0
    /\ tz = 0
    /\ crawlers = {"taiwan_cwa"}
    /\ init_database
    /\ lastOp = [op |-> "init"]
    /\ threads = NoThreads
    /\ HealthInputs
    /\ http = NoHttp
    /\ parse = NoParse

NextHealth == CalculateHealthScore

SpecHealth == InitHealth /\ [][NextHealth]_vars

\* C9: the health score lies in [0, 100] for every combination of ages
\* (infinite ones included), success rate and database size.
C9_HealthScoreInRange ==
    health.computed =>
        /\ 0 <= health.score /\ health.score <= 100 * ScoreScale
        /\ 0 <= health.older_score /\ health.older_score <= 100 * ScoreScale

\* C9 witness: every deduction at its largest (two types of infinite age, no
\* successful call, a 1000 MB file) sums to 110 points and the score is 0.
C9_Witness ==
    /\ health.computed
    /\ DOMAIN health.freshness_info = DataTypes
    /\ \A t \in DataTypes : health.freshness_info[t] = Infinity
    /\ health.db_stats.api_success_rate = 0
    /\ health.db_stats.db_size_mb = 1000
    /\ health.score = 0

\* C10: with success rate and database size fixed, growing the age of one
\* data type never raises the health score.
C10_HealthScoreMonotone ==
    health.computed => health.older_score <= health.score

\* C10 witness: one type crossed from "old" to "very old" and the score fell.
C10_Witness ==
    /\ health.computed
    /\ \E t \in DOMAIN health.freshness_info :
          /\ health.freshness_info[t] > refresh_thresholds(t)
          /\ health.freshness_info[t] <= 2 * refresh_thresholds(t)
          /\ health.older_info[t] > 2 * refresh_thresholds(t)
    /\ health.older_score < health.score

\* ------------------------------------------------------ store properties
\* the last record of a batch carrying the key of batch[i]
IsLastForecastOfKey(batch, i) ==
    \A j \in (i + 1)..Len(batch) :
        ~(/\ batch[j].location = batch[i].location
          /\ batch[j].start_time = batch[i].start_time)

IsLastQuakeOfNo(batch, i) ==
    \A j \in (i + 1)..Len(batch) :
        batch[j].earthquake_no # batch[i].earthquake_no

\* C1: after any sequence of save_weather_forecast calls the forecasts table
\* holds at most one row per (location, start_time), and after a committed
\* save that row carries the values of the last record upserted for the key.
C1_OneRowPerForecastKey ==
    /\ \A r1, r2 \in weather_forecasts :
          (r1.location = r2.location /\ r1.start_time = r2.start_time)
              => r1 = r2
    /\ (lastOp.op = "save_weather_forecast" /\ lastOp.committed) =>
          \A i \in 1..Len(lastOp.batch) :
              IsLastForecastOfKey(lastOp.batch, i) =>
                  \A r \in weather_forecasts :
                      (/\ r.location = lastOp.batch[i].location
                       /\ r.start_time = lastOp.batch[i].start_time)
                          => r.temperature = lastOp.batch[i].T_value

\* C2: the earthquakes table holds at most one row per earthquake_no, and
\* after a committed save_earthquake_data every column of the row of a number
\* in the batch comes from the last record of the batch with that number.
C2_EarthquakeUpsertReplaces ==
    /\ \A r1, r2 \in earthquakes :
          r1.earthquake_no = r2.earthquake_no => r1 = r2
    /\ (lastOp.op = "save_earthquake_data" /\ lastOp.committed) =>
          \A i \in 1..Len(lastOp.batch) :
              IsLastQuakeOfNo(lastOp.batch, i) =>
                  \E r \in earthquakes :
                      /\ r.earthquake_no = lastOp.batch[i].earthquake_no
                      /\ r.magnitude_value
                             = ToFloat(lastOp.batch[i].magnitude_value)
                      /\ r.depth = ToFloat(lastOp.batch[i].depth)
                      /\ r.created_at = CurrentTimestamp(now)
                      /\ r.id = nextId.earthquakes - Len(lastOp.batch) + i

\* C2 witness: no. 2024001 upserted with magnitude 4.2 and a depth, then with
\* 4.5 and no depth: one row, magnitude 4.5, depth NULL.
C2_Witness ==
    /\ lastOp.op = "save_earthquake_data"
    /\ lastOp.committed
    /\ lastOp.batch =
         <<[earthquake_no |-> "2024001", magnitude_value |-> 42, depth |-> 10],
           [earthquake_no |-> "2024001", magnitude_value |-> 45,
            depth |-> NULL]>>
    /\ Cardinality(earthquakes) = 1
    /\ \A r \in earthquakes : r.magnitude_value = 45 /\ r.depth = NULL

\* C8: cleanup_old_data(days) deletes no forecast row and no log row younger
\* than `days` days and no earthquake row younger than 2 * days days.
C8_CleanupKeepsRetentionWindow ==
    lastOp.op = "cleanup_old_data" =>
        /\ \A r \in lastOp.weather_deleted :
              now - StampTick(r.created_at) >= lastOp.days * TicksPerDay
        /\ \A r \in lastOp.logs_deleted :
              now - StampTick(r.called_at) >= lastOp.days * TicksPerDay
        /\ \A r \in lastOp.eq_deleted :
              now - StampTick(r.created_at) >= 2 * lastOp.days * TicksPerDay

\* ---------------------------------------------------- service properties
\* the step is one getData call of the given operation
IsCallStep(op) == lastOp'.op = op /\ lastOp'.at = now /\ now' = now

\* the rows the call recorded in lastOp reads from the tables wf and eq
ReadOf(call, wf, eq) ==
    IF call.op = "get_weather_forecast_data"
    THEN get_latest_weather_forecasts(wf, call.at + tz, 24)
    ELSE get_recent_earthquakes(eq, call.at + tz, call.days_back,
                                call.min_magnitude)

\* the payload of the call did not yield a non-empty frame
FetchOrParseFailed(call) ==
    /\ call.fetches = 1
    /\ \/ call.raw.kind \in {"None", "no_cwaopendata", "no_dataset"}
       \/ call.raw.kind = "ok" /\ Len(call.raw.items) = 0

\* two consecutive get_weather_forecast_data(force_refresh = False) calls
\* no more than the forecast threshold apart: lastOp is the first, the step
\* is the second
TwoForecastCallsWithinThreshold ==
    /\ lastOp.op = "get_weather_forecast_data"
    /\ ~lastOp.force_refresh
    /\ IsCallStep("get_weather_forecast_data")
    /\ ~lastOp'.force_refresh
    /\ lastOp'.at - lastOp.at <= refresh_thresholds("weather_forecasts")

\* C3 (as claimed): two consecutive get_weather_forecast_data(force_refresh =
\* False) calls within the forecast threshold of each other call
\* crawler.get_dataset_data at most once in total, whatever the first call's
\* outcome.
C3_AtMostOneFetchWhateverOutcome ==
    [][TwoForecastCallsWithinThreshold
           => lastOp.fetches + lastOp'.fetches <= 1]_vars

\* the first call left the forecast FreshnessEntry written at its own time
\* (it found the data fresh, or its refresh stored rows and stamped the entry)
FirstCallLeftFreshEntry ==
    /\ HasFreshness("weather_forecasts")
    /\ calculate_data_age(FreshnessOf("weather_forecasts").last_update,
                          lastOp.at + tz)
           <= refresh_thresholds("weather_forecasts")
    /\ lastOp.fetches = 1 =>
           FreshnessOf("weather_forecasts").last_update
               = isoformat(lastOp.at + tz)

\* C3 (amended): two such calls fetch at most once in total when the first
\* call did not fetch or its refresh wrote the forecast FreshnessEntry.
C3_AtMostOneFetchAfterStoredRefresh ==
    [][(TwoForecastCallsWithinThreshold /\ FirstCallLeftFreshEntry)
           => lastOp.fetches + lastOp'.fetches <= 1]_vars

\* C3 witness: a second call arriving exactly one threshold after the
\* refresh that stamped the entry, and fetching nothing.
C3_Witness ==
    /\ lastOp.op = "get_weather_forecast_data"
    /\ ~lastOp.force_refresh
    /\ lastOp.fetches = 0
    /\ lastOp.at > 0
    /\ HasFreshness("weather_forecasts")
    /\ calculate_data_age(FreshnessOf("weather_forecasts").last_update,
                          lastOp.at + tz)
           = refresh_thresholds("weather_forecasts")

\* the refresh cycle of the call failed
RefreshFailed(call) ==
    /\ call.op \in GetOps
    /\ call.needs_refresh
    /\ ~(call.success /\ call.committed)

C5_FailedFetchOrParseLeavesStore ==
    [][((IsCallStep("get_weather_forecast_data")
            \/ IsCallStep("get_earthquake_data"))
        /\ FetchOrParseFailed(lastOp'))
           => /\ ~lastOp'.save_called
              /\ weather_forecasts' = weather_forecasts
              /\ earthquakes' = earthquakes
              /\ data_freshness' = data_freshness
              /\ lastOp'.rows = ReadOf(lastOp', weather_forecasts,
                                       earthquakes)]_vars

\* C5 witness: a payload without its root key met a store that already held
\* rows and a freshness entry.
C5_Witness ==
    /\ lastOp.op = "get_weather_forecast_data"
    /\ lastOp.fetches = 1
    /\ lastOp.raw.kind = "no_cwaopendata"
    /\ lastOp.rows # {}
    /\ HasFreshness("weather_forecasts")

\* C7: a refresh whose store write failed is not reported as successful:
\* neither by its return value nor by the log entry it appends.
C7_StoreFailureNotReportedAsSuccess ==
    (lastOp.op \in GetOps /\ lastOp.save_called /\ ~lastOp.committed) =>
        /\ ~lastOp.success
        /\ \A r \in api_logs : r.id = nextId.api_logs => ~r.success


\* ------------------------------------------- service properties, continued
\* the freshness entry of the call's data type is within its threshold at
\* the time of the call
EntryFreshAtCall(call) ==
    /\ HasFreshness(DataTypeOf(call.op))
    /\ calculate_data_age(FreshnessOf(DataTypeOf(call.op)).last_update,
                          call.at + tz)
           <= refresh_thresholds(DataTypeOf(call.op))

\* C11: a getData call with force_refresh = True on a service that has its
\* crawler calls crawler.get_dataset_data (whose first session.get is
\* unconditional), whatever the freshness entry says.
C11_ForceRefreshAlwaysFetches ==
    (lastOp.op \in GetOps /\ lastOp.force_refresh /\ "taiwan_cwa" \in crawlers)
        => lastOp.fetches >= 1

\* C11 witness: a forced call that fetched (and got nothing) although the
\* entry it left untouched was still within its threshold.
C11_Witness ==
    /\ lastOp.op \in GetOps
    /\ lastOp.force_refresh
    /\ lastOp.fetches = 1
    /\ lastOp.raw.kind = "None"
    /\ EntryFreshAtCall(lastOp)


\* C12: a getData call that can produce no data (its refresh failed and the
\* read returns no row) returns record_count = 0 and a metadata dictionary
\* with an 'error' entry.
C12_EmptyReadCarriesError ==
    (RefreshFailed(lastOp) /\ lastOp.rows = {}) =>
        /\ ~lastOp.raised
        /\ lastOp.metadata.record_count = 0
        /\ "error" \in DOMAIN lastOp.metadata


\* ------------------------------------------- store properties, continued
\* the data type a save stamps in data_freshness
SavedType(op) ==
    IF op = "save_weather_forecast" THEN "weather_forecasts"
    ELSE "earthquakes"

\* C13: the upsert of a save and its freshness update are one atomic unit:
\* a save that committed its rows has stamped the entry of its type with the
\* time and the count of this save, and a save that committed nothing has
\* left data_freshness as it was.
C13_UpsertAndFreshnessAtomic ==
    [][lastOp'.op \in {"save_weather_forecast", "save_earthquake_data"} =>
          /\ lastOp'.committed =>
                \E r \in data_freshness' :
                    /\ r.data_type = SavedType(lastOp'.op)
                    /\ r.last_update = isoformat(LocalNow)
                    /\ r.record_count = Len(lastOp'.batch)
          /\ ~lastOp'.committed => data_freshness' = data_freshness]_vars


\* the thresholds as documented: forecasts 3 h, earthquakes 1 h,
\* observations half an hour, any other type 6 h
DocumentedThreshold(data_type) ==
    IF data_type = "weather_forecasts" THEN 3 * TicksPerHour
    ELSE IF data_type = "earthquakes" THEN TicksPerHour
    ELSE IF data_type = "weather_observations" THEN TicksPerHour \div 2
    ELSE 6 * TicksPerHour

\* C14: a getData call starts a refresh cycle if and only if force_refresh
\* is set, or the type has no freshness entry, or the entry's age is strictly
\* greater than the documented threshold; and it starts at most one cycle,
\* which fetches at most once.
C14_RefreshIffForcedOrStale ==
    [][(IsCallStep("get_weather_forecast_data")
           \/ IsCallStep("get_earthquake_data"))
        => /\ lastOp'.needs_refresh <=>
                 \/ lastOp'.force_refresh
                 \/ ~HasFreshness(DataTypeOf(lastOp'.op))
                 \/ calculate_data_age(
                        FreshnessOf(DataTypeOf(lastOp'.op)).last_update,
                        LocalNow)
                        > DocumentedThreshold(DataTypeOf(lastOp'.op))
           /\ lastOp'.fetches <= 1
           /\ lastOp'.fetches = 1 => lastOp'.needs_refresh
           /\ \A t \in DataTypes \cup {"weather_observations", "other"} :
                  refresh_thresholds(t) = DocumentedThreshold(t)]_vars

\* C14 witness: an unforced forecast call four hours after the entry was
\* written started a refresh (which fetched nothing, so the entry stayed).
C14_Witness ==
    /\ lastOp.op = "get_weather_forecast_data"
    /\ ~lastOp.force_refresh
    /\ lastOp.needs_refresh
    /\ lastOp.fetches = 1
    /\ lastOp.raw.kind = "None"
    /\ HasFreshness("weather_forecasts")
    /\ calculate_data_age(FreshnessOf("weather_forecasts").last_update,
                          lastOp.at + tz) = 4 * TicksPerHour


\* --------------------------------------------- health score, continued
\* the documented score, in tenths: every data type loses 20 or 10 points,
\* the success rate always costs (100 - rate) / 2, the size up to 20
DocumentedScore(freshness_info, db_stats) ==
    LET stale == StalenessSum(freshness_info, DOMAIN freshness_info)
                     * ScoreScale
        api == ((100 - db_stats.api_success_rate) * ScoreScale) \div 2
        size == IF db_stats.db_size_mb > 100
                THEN Min(20 * ScoreScale,
                         ((db_stats.db_size_mb - 100) * ScoreScale) \div 10)
                ELSE 0
    IN  Max(0, Min(100 * ScoreScale, 100 * ScoreScale - stale - api - size))

\* C15: for all inputs the health score equals the documented formula, the
\* success-rate deduction applying at every rate from 0 to 100.
C15_HealthScoreFormula ==
    health.computed =>
        health.score = DocumentedScore(health.freshness_info, health.db_stats)


\* ------------------------------------------------------ the HTTP fetcher
\* BaseCrawler._make_request on one crawler object, called from the sessions
\* that share it.  The wall clock http.clock counts half seconds (the finest
\* configured rate limit).  A call is split where it blocks in time.sleep:
\* make_request runs up to the rate-limit sleep, session_get is one turn of
\* the retry loop from the end of a sleep to the next sleep or the return.
TicksPerSecond == 2
MAX_RETRIES == 3
\* 'rate_limit' of the configured sources: 0.5 s and 1.0 s (REQUEST_DELAY,
\* the default, is 1.0 s too)
RateLimits == {TicksPerSecond \div 2, TicksPerSecond}

IdleCall ==
    [pc |-> "idle", attempt |-> 0, wake |-> 0, sent |-> 0, waits |-> <<>>,
     result |-> "none"]

\* a retry loop that backs off after its last failure too
IsLastAttempt_off_by_one(attempt) == attempt = MAX_RETRIES

\* attempt == self.crawler_config.MAX_RETRIES - 1
IsLastAttempt(attempt) == attempt = MAX_RETRIES - 1

\* time.sleep(2 ** attempt)
Backoff(attempt) == TicksPerSecond * 2 ^ attempt

\* the sleeps of a call whose first k attempts fail and back off
RECURSIVE TotalBackoff(_)
TotalBackoff(k) == IF k = 0 THEN 0 ELSE Backoff(k - 1) + TotalBackoff(k - 1)

\* _make_request up to time.sleep(rate_limit)
make_request(s) ==
    /\ http.calls[s].pc \in {"idle", "done"}
    /\ http.clock + http.rate_limit + TotalBackoff(MAX_RETRIES - 1)
           <= MaxFetchClock
    /\ http' = [http EXCEPT !.calls[s] =
           [pc |-> "sleep", attempt |-> 0,
            wake |-> http.clock + http.rate_limit, sent |-> 0,
            waits |-> <<http.rate_limit>>, result |-> "none"]]
    /\ UNCHANGED <<catalog, frame, parse, threads, health, now, tz, crawlers, weather_forecasts,
                   earthquakes, api_logs, data_freshness, nextId, lastOp>>

\* the state of the call after session.get of this turn answered
AfterGet(c, ok, clock) ==
    IF ok
    THEN [c EXCEPT !.pc = "done", !.sent = @ + 1, !.result = "response"]
    ELSE IF IsLastAttempt(c.attempt)
    THEN [c EXCEPT !.pc = "done", !.sent = @ + 1, !.result = "None"]
    ELSE [c EXCEPT !.sent = @ + 1, !.attempt = @ + 1,
                   !.wake = clock + Backoff(c.attempt),
                   !.waits = Append(@, Backoff(c.attempt))]

\* one turn of `for attempt in range(MAX_RETRIES)` once the sleep is over:
\* session.get answers (ok) or raises a RequestException; a loop that has
\* run out returns None
session_get(s) ==
    /\ http.calls[s].pc = "sleep"
    /\ http.clock >= http.calls[s].wake
    /\ IF http.calls[s].attempt >= MAX_RETRIES
       THEN http' = [http EXCEPT !.calls[s].pc = "done",
                                 !.calls[s].result = "None"]
       ELSE \E ok \in BOOLEAN :
               http' = [http EXCEPT
                   !.calls[s] = AfterGet(http.calls[s], ok, http.clock),
                   !.lastSent = http.clock,
                   !.lastGap = IF http.lastSent = NULL THEN NULL
                               ELSE http.clock - http.lastSent]
    /\ UNCHANGED <<catalog, frame, parse, threads, health, now, tz, crawlers, weather_forecasts,
                   earthquakes, api_logs, data_freshness, nextId, lastOp>>

\* half a second passes; a sleep that is over returns before the clock
\* moves on
Tick ==
    /\ http.clock < MaxFetchClock
    /\ \A s \in Sessions :
           http.calls[s].pc = "sleep" => http.clock < http.calls[s].wake
    /\ http' = [http EXCEPT !.clock = @ + 1]
    /\ UNCHANGED <<catalog, frame, parse, threads, health, now, tz, crawlers, weather_forecasts,
                   earthquakes, api_logs, data_freshness, nextId, lastOp>>

InitFetch ==
    /\ catalog = NoCatalog
    /\ frame = NoFrame
    /\ now = 0
    /\ tz = 0
    /\ crawlers = {"taiwan_cwa"}
    /\ init_database
    /\ lastOp = [op |-> "init"]
    /\ threads = NoThreads
    /\ health = NoHealth
    /\ parse = NoParse
    /\ http \in {[clock |-> 0, rate_limit |-> r, lastSent |-> NULL,
                  lastGap |-> NULL, calls |-> [s \in Sessions |-> IdleCall]] :
                    r \in RateLimits}

NextFetch ==
    \/ Tick
    \/ \E s \in Sessions : make_request(s) \/ session_get(s)

SpecFetch == InitFetch /\ [][NextFetch]_vars

\* time passes and a thread whose sleep is over runs
SpecFetchFair ==
    /\ SpecFetch
    /\ WF_vars(Tick)
    /\ \A s \in Sessions : WF_vars(session_get(s))

\* what holds of one _make_request call at every moment
FetchCallInv(c) ==
    /\ c.sent <= MAX_RETRIES
    /\ c.pc = "sleep" =>
          /\ c.attempt < MAX_RETRIES
          /\ c.sent = c.attempt
          /\ Len(c.waits) = c.sent + 1
    /\ c.pc = "done" => c.result \in {"response", "None"}
    /\ (c.pc = "done" /\ c.result = "response") =>
          /\ c.sent >= 1
          /\ Len(c.waits) = c.sent
    /\ (c.pc = "done" /\ c.result = "None") =>
          /\ c.sent = MAX_RETRIES
          /\ Len(c.waits) = MAX_RETRIES
    /\ \A k \in 2..Len(c.waits) : c.waits[k] = TicksPerSecond * 2 ^ (k - 2)

\* C16: _make_request always terminates; it makes at most MAX_RETRIES
\* attempts, returns on the first success without a further attempt, sleeps
\* 2^attempt seconds after each failed attempt but the last, and returns None
\* after the MAX_RETRIES-th failure without a further sleep.
C16_MakeRequestTerminates ==
    /\ [](\A s \in Sessions : FetchCallInv(http.calls[s]))
    /\ [][\A s \in Sessions :
             (http.calls[s].pc = "done" /\ http'.calls[s].pc = "done")
                 => http'.calls[s] = http.calls[s]]_vars
    /\ \A s \in Sessions :
           (http.calls[s].pc = "sleep") ~> (http.calls[s].pc = "done")

\* C16 witness: a call whose three attempts failed: it slept the rate limit,
\* then 1 s and 2 s, and returned None.
C16_Witness ==
    \E s \in Sessions :
        /\ http.calls[s].pc = "done"
        /\ http.calls[s].result = "None"
        /\ http.calls[s].sent = 3
        /\ http.calls[s].waits =
               <<http.rate_limit, TicksPerSecond, 2 * TicksPerSecond>>

\* C17: every session.get, retries included, comes at least the configured
\* rate limit after the previous session.get of the crawler.
C17_EveryRequestRateLimited ==
    http.lastGap # NULL => http.lastGap >= http.rate_limit


\* --------------------------------------------------- the payload processor
\* TaiwanWeatherProcessor on decoded JSON.  A JSON object is a function from
\* its keys; d.get(k, default) is Get.
EmptyDict == [k \in {} |-> ""]
Get(d, k, default) == IF k \in DOMAIN d THEN d[k] ELSE default

\* one element of 'weatherElement', with and without its 'time' list
TimedElement ==
    [elementName |-> "T",
     time |-> <<[startTime |-> "P1",
                 parameter |-> <<[parameterValue |-> "25"]>>]>>]
BareElement == [elementName |-> "T"]

\* 'location' items: any of 'locationName' and 'weatherElement' may be absent
RawLocations ==
    {EmptyDict, [locationName |-> "Taipei"]} \cup
    {[weatherElement |-> <<e>>] : e \in {TimedElement, BareElement}} \cup
    {[locationName |-> "Taipei", weatherElement |-> <<e>>] :
        e \in {TimedElement, BareElement}}

\* 'earthquakeInfo' objects: with or without magnitude and epicenter
RawEarthquakeInfos ==
    {EmptyDict, [magnitudeValue |-> "4.2"],
     [magnitudeValue |-> "4.2", epicenter |-> [location |-> "Hualien"]]}

\* 'earthquake' items: any of 'earthquakeNo' and 'earthquakeInfo' may be absent
RawEarthquakes ==
    {EmptyDict, [earthquakeNo |-> "2024001"]} \cup
    {[earthquakeInfo |-> i] : i \in RawEarthquakeInfos} \cup
    {[earthquakeNo |-> "2024001", earthquakeInfo |-> i] :
        i \in RawEarthquakeInfos}

RawLists(S) == UNION {[1..n -> S] : n \in 0..MaxParseItems}

\* decoded payloads: without 'cwaopendata', without 'dataset', with a dataset
\* that has no list, with a list
RawPayloads(listKey, S) ==
    {EmptyDict, [cwaopendata |-> EmptyDict],
     [cwaopendata |-> [dataset |-> EmptyDict]]} \cup
    {[cwaopendata |-> [dataset |-> [k \in {listKey} |-> items]]] :
        items \in RawLists(S)}

\* the columns one weather element adds to location_data
ElementColumns(element) ==
    LET element_value == Get(element, "time", <<>>)
        first_time == element_value[1]
        parameters == Get(first_time, "parameter", <<>>)
    IN  IF Len(element_value) = 0 THEN EmptyDict
        ELSE IF Len(parameters) = 0 THEN EmptyDict
        ELSE [T_value |-> Get(parameters[1], "parameterValue", ""),
              T_start |-> Get(first_time, "startTime", "")]

\* location_data of one 'location' item (its elements are named "T")
LocationData(location) ==
    LET weather_elements == Get(location, "weatherElement", <<>>)
        named == [location |-> Get(location, "locationName", "Unknown")]
    IN  IF Len(weather_elements) = 0 THEN named
        ELSE IF DOMAIN ElementColumns(weather_elements[1]) = {} THEN named
        ELSE [location |-> named.location,
              T_value |-> ElementColumns(weather_elements[1]).T_value,
              T_start |-> ElementColumns(weather_elements[1]).T_start]

\* process_weather_forecast
process_weather_forecast(raw_data) ==
    IF "cwaopendata" \notin DOMAIN raw_data THEN NoneFrame
    ELSE IF "dataset" \notin DOMAIN raw_data.cwaopendata THEN NoneFrame
    ELSE LET locations == Get(raw_data.cwaopendata.dataset, "location", <<>>)
         IN  [frame |-> TRUE,
              rows |-> [i \in 1..Len(locations) |->
                           LocationData(locations[i])]]

\* earthquake_data of one 'earthquake' item
EarthquakeData(eq) ==
    LET eq_info == Get(eq, "earthquakeInfo", EmptyDict) IN
    [earthquake_no |-> Get(eq, "earthquakeNo", ""),
     magnitude_value |-> Get(eq_info, "magnitudeValue", ""),
     location |-> Get(Get(eq_info, "epicenter", EmptyDict), "location", "")]

\* process_earthquake_data
process_earthquake_data(raw_data) ==
    IF "cwaopendata" \notin DOMAIN raw_data THEN NoneFrame
    ELSE IF "dataset" \notin DOMAIN raw_data.cwaopendata THEN NoneFrame
    ELSE LET eqs == Get(raw_data.cwaopendata.dataset, "earthquake", <<>>)
         IN  [frame |-> TRUE,
              rows |-> [i \in 1..Len(eqs) |-> EarthquakeData(eqs[i])]]

ParseInputs ==
    {[done |-> FALSE, kind |-> "weather_forecasts", raw |-> r] :
        r \in RawPayloads("location", RawLocations)} \cup
    {[done |-> FALSE, kind |-> "earthquakes", raw |-> r] :
        r \in RawPayloads("earthquake", RawEarthquakes)}

\* the processor applied to the payload
ProcessPayload ==
    /\ ~parse.done
    /\ parse' = [done |-> TRUE, kind |-> parse.kind, raw |-> parse.raw,
                 result |-> IF parse.kind = "weather_forecasts"
                            THEN process_weather_forecast(parse.raw)
                            ELSE process_earthquake_data(parse.raw)]
    /\ UNCHANGED <<catalog, frame, http, threads, health, now, tz, crawlers, weather_forecasts,
                   earthquakes, api_logs, data_freshness, nextId, lastOp>>

InitParse ==
    /\ catalog = NoCatalog
    /\ frame = NoFrame
    /\ now = 0
    /\ tz = 0
    /\ crawlers = {"taiwan_cwa"}
    /\ init_database
    /\ lastOp = [op |-> "init"]
    /\ threads = NoThreads
    /\ health = NoHealth
    /\ http = NoHttp
    /\ parse \in ParseInputs

NextParse == ProcessPayload

SpecParse == InitParse /\ [][NextParse]_vars

\* the keys the payload of a data type must carry
HasRequiredKeys(kind, raw) ==
    /\ "cwaopendata" \in DOMAIN raw
    /\ "dataset" \in DOMAIN raw.cwaopendata
    /\ IF kind = "weather_forecasts"
       THEN \A i \in 1..Len(Get(raw.cwaopendata.dataset, "location", <<>>)) :
               {"locationName", "weatherElement"}
                   \subseteq DOMAIN raw.cwaopendata.dataset.location[i]
       ELSE \A i \in 1..Len(Get(raw.cwaopendata.dataset, "earthquake", <<>>)) :
               LET eq == raw.cwaopendata.dataset.earthquake[i] IN
               /\ {"earthquakeNo", "earthquakeInfo"} \subseteq DOMAIN eq
               /\ "epicenter" \in DOMAIN eq.earthquakeInfo

\* C18: parsing is all-or-nothing: a payload lacking a required key yields
\* a parse failure (None), never a table.
C18_ParseAllOrNothing ==
    (parse.done /\ ~HasRequiredKeys(parse.kind, parse.raw))
        => ~parse.result.frame


\* ------------------------------------------------ the call log of a refresh
\* The service with the log insert free to fail: every refresh environment,
\* with log_api_call's INSERT succeeding or raising (and being swallowed).
AuditOutcomes(S) ==
    {[o EXCEPT !.logOk = l] : o \in RefreshOutcomes(S), l \in BOOLEAN}

\* get_weather_forecast_data under those environments
audited_get_weather_forecast_data ==
    /\ \E force_refresh \in BOOLEAN :
        IF needs_data_refresh("weather_forecasts", force_refresh)
        THEN \E o \in AuditOutcomes(ForecastRecords) :
                 ForecastRefresh(force_refresh, o)
        ELSE ForecastRead(force_refresh)
    /\ UNCHANGED threads

NextAudit ==
    \/ audited_get_weather_forecast_data
    \/ Advance

SpecAudit == Init /\ [][NextAudit]_vars

\* the endpoint a getData operation fetches
EndpointOf(op) ==
    IF op = "get_weather_forecast_data" THEN "F-A0010-001" ELSE "E-A0015-001"

\* what holds of the log rows a call step appends
AppendedLogRows(n) ==
    /\ api_logs \subseteq api_logs'
    /\ Cardinality(api_logs' \ api_logs) = n
    /\ \A r \in api_logs' \ api_logs :
          /\ r.id = nextId'.api_logs
          /\ r.endpoint = EndpointOf(lastOp'.op)
          /\ r.success = lastOp'.success
          /\ ~r.success => r.error_message \notin {NullText, ""}
          /\ r.called_at = CurrentTimestamp(now)

C20_FreshnessOverwrittenOnSuccessOnly ==
    [][/\ \A a, b \in data_freshness' :
            a.data_type = b.data_type => a = b
       /\ \A op \in GetOps :
            IsCallStep(op) =>
               /\ {r \in data_freshness' : r.data_type # DataTypeOf(op)}
                     = {r \in data_freshness : r.data_type # DataTypeOf(op)}
               /\ IF lastOp'.fetches = 1 /\ lastOp'.success
                  THEN \E r \in data_freshness' :
                           /\ r.data_type = DataTypeOf(op)
                           /\ r.last_update = isoformat(LocalNow)
                  ELSE data_freshness' = data_freshness]_vars


\* ------------------------------------------------------- recommendations
\* the number of messages of a level the list holds for a data type
MessagesFor(recs, level, data_type) ==
    Cardinality({i \in DOMAIN recs :
                    /\ recs[i].level = level
                    /\ recs[i].data_type = data_type})

\* C21: for every data type of freshness_info the recommendations hold
\* exactly one "very old" message if its age > 3 * threshold, exactly one
\* "refresh soon" message if 2 * threshold < age <= 3 * threshold, and no
\* message otherwise; the list is the single "all fresh" message exactly
\* when no type has age > 2 * threshold, and it is never empty.
C21_RecommendationsPerStaleType ==
    health.computed =>
        LET recs == health.recommendations
            info == health.freshness_info
        IN  /\ Len(recs) >= 1
            /\ \A t \in DOMAIN info :
                  /\ MessagesFor(recs, "very_old", t) =
                        (IF info[t] > 3 * refresh_thresholds(t) THEN 1 ELSE 0)
                  /\ MessagesFor(recs, "refresh_soon", t) =
                        (IF /\ info[t] > 2 * refresh_thresholds(t)
                            /\ info[t] <= 3 * refresh_thresholds(t)
                         THEN 1 ELSE 0)
            /\ \A i \in DOMAIN recs :
                  recs[i] # AllFresh => recs[i].data_type \in DOMAIN info
            /\ (recs = <<AllFresh>>) <=>
                  (\A t \in DOMAIN info :
                      ~(info[t] > 2 * refresh_thresholds(t)))
            /\ (\E i \in DOMAIN recs : recs[i] = AllFresh)
                  => recs = <<AllFresh>>

\* C21 witness: earthquakes exactly 3 thresholds old get the "refresh soon"
\* message and forecasts of unreadable age the "very old" one.
C21_Witness ==
    /\ health.computed
    /\ DOMAIN health.freshness_info = DataTypes
    /\ health.freshness_info["earthquakes"]
          = 3 * refresh_thresholds("earthquakes")
    /\ health.freshness_info["weather_forecasts"] = Infinity
    /\ Len(health.recommendations) = 2
    /\ MessagesFor(health.recommendations, "refresh_soon", "earthquakes") = 1
    /\ MessagesFor(health.recommendations, "very_old", "weather_forecasts")
          = 1


\* ------------------------------------------------- the catalog crawlers
\* DataGovCrawler and TWCrawler.search_datasets over the cache files of
\* BaseCrawler.  The clock counts hours and moves in steps of CatalogStep;
\* a _make_request is one step here, returning a response or None.
CACHE_EXPIRY_HOURS == 24
CatalogStep == 12
None == "None"

DatasetIds == {"d1"}
Queries == {"q1"}
TWQueries == {"earthquake", "typhoon"}
Limits == {1, 2}
RequestedFormats == {"json", "CSV"}
ListedFormats == {"JSON", "csv", None}

\* str.lower() on the formats in use
Lower(s) ==
    CASE s = "JSON" -> "json"
      [] s = "CSV" -> "csv"
      [] OTHER -> s

\* the cache files: <source_name>_<cache_key>.json
MetadataKey(dataset_id) == <<"data_gov", "metadata", dataset_id>>
SearchKey(query) == <<"data_gov", "search", query>>
TWSearchKey(query) == <<"taiwan_cwa", "tw_search", query>>
CacheKeys ==
    {MetadataKey(d) : d \in DatasetIds} \cup {SearchKey(q) : q \in Queries}
        \cup {TWSearchKey(q) : q \in TWQueries}
NoEntry == [exists |-> FALSE]
EmptyCache == [k \in CacheKeys |-> NoEntry]

\* _cache_data: the file is rewritten with the current timestamp; an error
\* while writing is logged and swallowed
cache_data(cache, data, cache_key, clock, ok) ==
    IF ok
    THEN [cache EXCEPT ![cache_key] =
              [exists |-> TRUE, timestamp |-> clock, data |-> data]]
    ELSE cache

\* _load_cached_data: None when the file is missing or expired
Loaded(cache, cache_key, clock) ==
    /\ cache[cache_key].exists
    /\ ~(clock > cache[cache_key].timestamp + CACHE_EXPIRY_HOURS)

\* the resources a package_show response lists: resource i has the URL
\* <<"url", i>> or none, and a format or none
ResourceUrl(i) == <<"url", i>>
NoUrl == <<>>
Resources ==
    UNION {{r \in [1..n -> [format : ListedFormats,
                            url : {ResourceUrl(i) : i \in 1..n}
                                      \cup {NoUrl}]] :
               \A i \in 1..n : r[i].url \in {ResourceUrl(i), NoUrl}} :
           n \in 0..MaxResources}

\* what _make_request(package_show) hands back: None, a body that is not
\* JSON, a JSON answer with success false, or the package
MetadataResponses ==
    {[kind |-> k, resources |-> <<>>] :
        k \in {"None", "invalid", "unsuccessful"}}
    \cup {[kind |-> "ok", resources |-> r] : r \in Resources}

NoMetadata == [found |-> FALSE, resources |-> <<>>]
PackageShow(dataset_id) == <<"package_show", dataset_id>>

\* DataGovCrawler.get_dataset_metadata(dataset_id) under the upstream answer
\* response: the metadata returned, the requests made, the cache left
dataset_metadata(cache, clock, dataset_id, response, cacheOk) ==
    IF Loaded(cache, MetadataKey(dataset_id), clock)
    THEN [metadata |-> [found |-> TRUE,
                        resources |-> cache[MetadataKey(dataset_id)].data],
          requests |-> <<>>, cache |-> cache]
    ELSE IF response.kind = "ok"
    THEN [metadata |-> [found |-> TRUE, resources |-> response.resources],
          requests |-> <<PackageShow(dataset_id)>>,
          cache |-> cache_data(cache, response.resources,
                               MetadataKey(dataset_id), clock, cacheOk)]
    ELSE [metadata |-> NoMetadata,
          requests |-> <<PackageShow(dataset_id)>>, cache |-> cache]

\* the for loop of get_dataset_data: the index of the resource it breaks
\* at (0: ran to the end), or -1 when resource.get('format', '').lower()
\* raises AttributeError on a format that is None
RECURSIVE FormatLoop(_, _, _)
FormatLoop(resources, format, i) ==
    IF i > Len(resources) THEN 0
    ELSE IF resources[i].format = None THEN -1
    ELSE IF Lower(resources[i].format) = Lower(format) THEN i
    ELSE FormatLoop(resources, format, i + 1)

\* resource_url as get_dataset_data leaves it before its request
resource_url(resources, format) ==
    LET i == FormatLoop(resources, format, 1)
        matched == IF i > 0 THEN resources[i].url ELSE NoUrl
    IN  IF matched # NoUrl THEN matched
        ELSE IF Len(resources) > 0 THEN resources[1].url
        ELSE NoUrl

\* DataGovCrawler.get_dataset_data(dataset_id, format)
dataset_data(cache, clock, dataset_id, format, response, cacheOk, resourceOk) ==
    LET md == dataset_metadata(cache, clock, dataset_id, response, cacheOk)
        url == resource_url(md.metadata.resources, format)
    IN  IF ~md.metadata.found
        THEN md @@ [result |-> "None"]
        ELSE IF FormatLoop(md.metadata.resources, format, 1) = -1
        THEN md @@ [result |-> "AttributeError"]
        ELSE IF url = NoUrl
        THEN md @@ [result |-> "None"]
        ELSE [md EXCEPT !.requests = Append(@, url)] @@
             [result |-> IF resourceOk THEN "data" ELSE "None"]

\* what _make_request(search) hands back, as the results parsed from it
SearchResponses ==
    {[kind |-> k, results |-> <<>>] : k \in {"None", "invalid"}}
    \cup {[kind |-> "ok", results |-> r] : r \in {<<>>, <<"d1">>}}

\* DataGovCrawler.search_datasets(query): `if cached_data` is false for a
\* cached empty list
search_datasets(cache, clock, query, response, cacheOk) ==
    IF /\ Loaded(cache, SearchKey(query), clock)
       /\ cache[SearchKey(query)].data # <<>>
    THEN [results |-> cache[SearchKey(query)].data, requests |-> <<>>,
          cache |-> cache]
    ELSE IF response.kind = "ok"
    THEN [results |-> response.results,
          requests |-> <<<<"package_search", query>>>>,
          cache |-> cache_data(cache, response.results, SearchKey(query),
                               clock, cacheOk)]
    ELSE [results |-> <<>>, requests |-> <<<<"package_search", query>>>>,
          cache |-> cache]

\* the endpoints of TWCrawler.base_endpoints a query matches
TWMatches(query) ==
    IF query = "earthquake" THEN <<"E-A0015-001", "E-A0016-001">> ELSE <<>>
Take(s, n) == SubSeq(s, 1, IF n < Len(s) THEN n ELSE Len(s))

\* TWCrawler.search_datasets(query, None, limit): filters its own table
tw_search_datasets(cache, clock, query, limit, cacheOk) ==
    IF /\ Loaded(cache, TWSearchKey(query), clock)
       /\ cache[TWSearchKey(query)].data # <<>>
    THEN [results |-> Take(cache[TWSearchKey(query)].data, limit),
          requests |-> <<>>, cache |-> cache]
    ELSE [results |-> Take(TWMatches(query), limit), requests |-> <<>>,
          cache |-> cache_data(cache, TWMatches(query), TWSearchKey(query),
                               clock, cacheOk)]

\* one call to a catalog crawler: the cache it leaves, and in `last` the
\* call, whether its cache entry was loaded, and what it did
CatalogCall(op, key, res, out) ==
    /\ catalog.calls < MaxCatalogCalls
    /\ catalog' = [calls |-> catalog.calls + 1, clock |-> catalog.clock,
                   cache |-> res.cache,
                   last |-> [op |-> op, key |-> key,
                             loaded |-> Loaded(catalog.cache, key,
                                               catalog.clock),
                             requests |-> res.requests, out |-> out]]
    /\ UNCHANGED <<now, tz, weather_forecasts, earthquakes, api_logs,
                   data_freshness, nextId, crawlers, lastOp, threads, health,
                   http, parse, frame>>

GetDatasetMetadata ==
    \E d \in DatasetIds, response \in MetadataResponses, cacheOk \in BOOLEAN :
      \E res \in {dataset_metadata(catalog.cache, catalog.clock, d, response,
                                   cacheOk)} :
        CatalogCall("get_dataset_metadata", MetadataKey(d), res,
                    [metadata |-> res.metadata])

GetDatasetData ==
    \E d \in DatasetIds, format \in RequestedFormats,
       response \in MetadataResponses, cacheOk \in BOOLEAN,
       resourceOk \in BOOLEAN :
      \E res \in {dataset_data(catalog.cache, catalog.clock, d, format,
                               response, cacheOk, resourceOk)} :
        CatalogCall("get_dataset_data", MetadataKey(d), res,
                    [metadata |-> res.metadata, format |-> format,
                     result |-> res.result])

SearchDatasets ==
    \E q \in Queries, response \in SearchResponses, cacheOk \in BOOLEAN :
      \E res \in {search_datasets(catalog.cache, catalog.clock, q, response,
                                  cacheOk)} :
        CatalogCall("search_datasets", SearchKey(q), res,
                    [results |-> res.results])

TWSearchDatasets ==
    \E q \in TWQueries, limit \in Limits, cacheOk \in BOOLEAN :
      \E res \in {tw_search_datasets(catalog.cache, catalog.clock, q, limit,
                                     cacheOk)} :
        CatalogCall("tw_search_datasets", TWSearchKey(q), res,
                    [results |-> res.results])

\* time passes between calls
CatalogTick ==
    /\ catalog.clock + CatalogStep <= MaxCatalogClock
    /\ catalog' = [catalog EXCEPT !.clock = @ + CatalogStep]
    /\ UNCHANGED <<now, tz, weather_forecasts, earthquakes, api_logs,
                   data_freshness, nextId, crawlers, lastOp, threads, health,
                   http, parse, frame>>

InitCatalog ==
    /\ catalog = [calls |-> 0, clock |-> 0, cache |-> EmptyCache,
                  last |-> [op |-> "init"]]
    /\ frame = NoFrame
    /\ now = 0
    /\ tz = 0
    /\ crawlers = {"taiwan_cwa"}
    /\ init_database
    /\ lastOp = [op |-> "init"]
    /\ threads = NoThreads
    /\ health = NoHealth
    /\ http = NoHttp
    /\ parse = NoParse

NextCatalog ==
    \/ GetDatasetMetadata
    \/ GetDatasetData
    \/ SearchDatasets
    \/ TWSearchDatasets
    \/ CatalogTick

SpecCatalog == InitCatalog /\ [][NextCatalog]_vars


\* the positions of the resource requests among the requests of a call
ResourceRequests(requests) ==
    {i \in DOMAIN requests : requests[i][1] = "url"}

\* the resource the documented rule picks: the first one whose format is
\* the requested one whatever the case, else the first one listed
ChosenResource(resources, format) ==
    LET matching == {i \in DOMAIN resources :
                        Lower(resources[i].format) = Lower(format)}
    IN  IF matching = {} THEN 1
        ELSE CHOOSE i \in matching : \A j \in matching : i <= j

\* C22: get_dataset_data requests a resource only after it has the metadata
\* (the package_show request, if made, comes first); with metadata whose
\* chosen resource (first of the requested format, else first listed) has a
\* URL it makes exactly one resource request, to that URL; without metadata,
\* or with metadata listing no resource URL, it requests no resource and
\* returns None.
C22_MetadataThenResource ==
    (catalog.calls > 0 /\ catalog.last.op = "get_dataset_data") =>
        LET requests == catalog.last.requests
            metadata == catalog.last.out.metadata
            resources == metadata.resources
            format == catalog.last.out.format
        IN  /\ \A i \in ResourceRequests(requests) :
                  /\ metadata.found
                  /\ i = Len(requests)
            /\ Cardinality(ResourceRequests(requests)) <= 1
            /\ ~metadata.found =>
                  /\ ResourceRequests(requests) = {}
                  /\ catalog.last.out.result = "None"
            /\ (metadata.found
                   /\ \A i \in DOMAIN resources : resources[i].url = NoUrl) =>
                  /\ ResourceRequests(requests) = {}
                  /\ catalog.last.out.result = "None"
            /\ (metadata.found /\ Len(resources) > 0
                   /\ resources[ChosenResource(resources, format)].url
                          # NoUrl) =>
                  /\ ResourceRequests(requests) # {}
                  /\ requests[Len(requests)] =
                        resources[ChosenResource(resources, format)].url

\* what a search or metadata call returned, as the value it would cache
Returned(call) ==
    IF call.op = "get_dataset_metadata" THEN call.out.metadata.resources
    ELSE call.out.results

\* the call returned a result (metadata, or a non-empty list of datasets)
HasResult(call) ==
    IF call.op = "get_dataset_metadata" THEN call.out.metadata.found
    ELSE call.out.results # <<>>

\* C23: a search or metadata call that finds an entry no older than
\* CACHE_EXPIRY_HOURS makes no upstream request and returns the entry's
\* data; one that finds no such entry makes the upstream request (the
\* DataGovCrawler calls) and, when it has a result, leaves it in the cache
\* with the current timestamp.
C23_CacheReadThroughWithTTL ==
    [][(/\ catalog'.calls = catalog.calls + 1
        /\ catalog'.last.op \in {"get_dataset_metadata", "search_datasets",
                                  "tw_search_datasets"})
        => LET call == catalog'.last
               entry == catalog.cache[call.key]
               unexpired ==
                   /\ entry.exists
                   /\ catalog.clock <= entry.timestamp + CACHE_EXPIRY_HOURS
           IN  /\ unexpired =>
                     /\ call.requests = <<>>
                     /\ call.op # "tw_search_datasets"
                           => Returned(call) = entry.data
               /\ (~unexpired /\ call.op # "tw_search_datasets")
                     => Len(call.requests) = 1
               /\ (~unexpired /\ HasResult(call)) =>
                     /\ catalog'.cache[call.key].exists
                     /\ catalog'.cache[call.key].timestamp = catalog.clock
                     /\ call.op # "tw_search_datasets" =>
                           catalog'.cache[call.key].data = Returned(call)]_vars


\* ------------------------------------------------------- clean_dataset
\* A DataFrame is its column names and its rows.  A name is a str (its
\* characters) or not (its str() text, here 1.5); a cell is NaN, a str, or
\* a number (val is its value written canonically).
WordChars == {"A", "a", "_", "1", "5"}
NameChars == {"A", "a", "_", " ", "-"}
ColumnNames ==
    UNION {{[str |-> TRUE, chars |-> c] : c \in [1..n -> NameChars]} :
           n \in 0..MaxNameLen}
    \cup {[str |-> FALSE, chars |-> <<"1", ".", "5">>]}
NaN == [type |-> "nan", val |-> "nan"]
Text(s) == [type |-> "str", val |-> s]
Number(s) == [type |-> "number", val |-> s]
Cells == {NaN, Text("1"), Text("1.0"), Text("x")}

\* the entries of s at the positions in keep, in order
RECURSIVE Project(_, _, _)
Project(s, keep, i) ==
    IF i > Len(s) THEN <<>>
    ELSE (IF i \in keep THEN <<s[i]>> ELSE <<>>) \o Project(s, keep, i + 1)

\* s without its leading run of ch / without its trailing underscores
RECURSIVE SkipRun(_, _)
SkipRun(s, ch) ==
    IF s # <<>> /\ Head(s) = ch THEN SkipRun(Tail(s), ch) ELSE s
RECURSIVE RStrip(_)
RStrip(s) ==
    IF s # <<>> /\ s[Len(s)] = "_" THEN RStrip(SubSeq(s, 1, Len(s) - 1))
    ELSE s

\* re.sub(ch+, '_', s)
RECURSIVE CollapseRuns(_, _)
CollapseRuns(s, ch) ==
    IF s = <<>> THEN <<>>
    ELSE IF Head(s) = ch THEN <<"_">> \o CollapseRuns(SkipRun(s, ch), ch)
    ELSE <<Head(s)>> \o CollapseRuns(Tail(s), ch)

\* _clean_column_name
clean_column_name(name) ==
    IF ~name.str THEN [str |-> TRUE, chars |-> name.chars]
    ELSE LET special == [i \in DOMAIN name.chars |->
                            IF name.chars[i] \in WordChars \cup {" "}
                            THEN name.chars[i] ELSE "_"]
             spaces == CollapseRuns(special, " ")
             stripped == RStrip(SkipRun(spaces, "_"))
             lower == [i \in DOMAIN stripped |->
                          IF stripped[i] = "A" THEN "a" ELSE stripped[i]]
         IN  [str |-> TRUE, chars |-> CollapseRuns(lower, "_")]

\* df.dropna(how='all').dropna(axis=1, how='all')
dropna(df) ==
    LET rows == SelectSeq(df.rows,
                    LAMBDA r : \E j \in DOMAIN r : r[j] # NaN)
        keep == {j \in DOMAIN df.columns :
                    \E i \in DOMAIN rows : rows[i][j] # NaN}
    IN  [columns |-> Project(df.columns, keep, 1),
         rows |-> [i \in DOMAIN rows |-> Project(rows[i], keep, 1)]]

\* df.drop_duplicates(): the first of equal rows is kept
RECURSIVE drop_duplicates(_, _)
drop_duplicates(rows, i) ==
    IF i > Len(rows) THEN <<>>
    ELSE (IF \E k \in 1..(i - 1) : rows[k] = rows[i] THEN <<>>
          ELSE <<rows[i]>>) \o drop_duplicates(rows, i + 1)

\* pd.to_numeric of one cell; "x" is what makes the conversion fail
Numeric(cell) == cell.type = "number" \/ cell = NaN \/ cell.val \in {"1", "1.0"}
to_numeric(cell) == IF cell.type = "str" THEN Number("1") ELSE cell

\* _convert_date_columns: an object column is converted only when one of
\* its first values matches a date pattern
\* (none of the texts in Cells does)
DateLike == {}
convert_date_columns(rows) ==
    [i \in DOMAIN rows |->
        [j \in DOMAIN rows[i] |->
            IF rows[i][j].type = "str" /\ rows[i][j].val \in DateLike
            THEN [type |-> "datetime", val |-> rows[i][j].val]
            ELSE rows[i][j]]]

\* _convert_numeric_columns: an object column becomes numeric when every
\* value converts (errors='ignore' hands the column back otherwise)
convert_numeric_columns(rows) ==
    LET object(j) == \E i \in DOMAIN rows : rows[i][j].type = "str"
        converts(j) == \A i \in DOMAIN rows : Numeric(rows[i][j])
    IN  [i \in DOMAIN rows |->
            [j \in DOMAIN rows[i] |->
                IF object(j) /\ converts(j) THEN to_numeric(rows[i][j])
                ELSE rows[i][j]]]

\* DataProcessor.clean_dataset(df).  With two columns of one name df[col]
\* is a DataFrame, .dtype raises, and the except clause returns the frame
\* as it is then: renamed and de-duplicated, not converted.
clean_dataset(df) ==
    IF df.rows = <<>> \/ df.columns = <<>> THEN df
    ELSE LET dropped == dropna(df)
             columns == [j \in DOMAIN dropped.columns |->
                            clean_column_name(dropped.columns[j])]
             rows == drop_duplicates(dropped.rows, 1)
         IN  IF \E j, k \in DOMAIN columns : j # k /\ columns[j] = columns[k]
             THEN [columns |-> columns, rows |-> rows]
             ELSE [columns |-> columns,
                   rows |-> convert_numeric_columns(
                                convert_date_columns(rows))]

\* the tables handed to clean_dataset: any names over one row of text, and
\* any cells under plain names
PlainNames == [j \in 1..MaxColumns |->
                  [str |-> TRUE, chars |-> <<IF j = 1 THEN "a" ELSE "5">>]]
Tables ==
    UNION {{[columns |-> c, rows |-> <<[j \in 1..n |-> Text("x")]>>] :
               c \in [1..n -> ColumnNames]} : n \in 1..MaxColumns}
    \cup
    UNION {UNION {{[columns |-> SubSeq(PlainNames, 1, n), rows |-> r] :
                      r \in [1..k -> [1..n -> Cells]]} :
                  k \in 0..MaxRows} : n \in 1..MaxColumns}

\* clean_dataset applied to a table, and again to its result
CleanDataset ==
    /\ ~frame.done
    /\ \E once \in {clean_dataset(frame.df)} :
         frame' = [done |-> TRUE, df |-> frame.df, once |-> once,
                   twice |-> clean_dataset(once)]
    /\ UNCHANGED <<now, tz, weather_forecasts, earthquakes, api_logs,
                   data_freshness, nextId, crawlers, lastOp, threads, health,
                   http, parse, catalog>>

InitClean ==
    /\ frame \in {[done |-> FALSE, df |-> t] : t \in Tables}
    /\ catalog = NoCatalog
    /\ now = 0
    /\ tz = 0
    /\ crawlers = {"taiwan_cwa"}
    /\ init_database
    /\ lastOp = [op |-> "init"]
    /\ threads = NoThreads
    /\ health = NoHealth
    /\ http = NoHttp
    /\ parse = NoParse

NextClean == CleanDataset

SpecClean == InitClean /\ [][NextClean]_vars

\* C24: cleaning a cleaned table changes nothing: the same column names and
\* the same rows.
C24_NormalizeIdempotent ==
    frame.done => frame.twice = frame.once


\* -------------------------------------------- service properties, is_fresh
\* C25: a getData call whose refresh succeeded (rows committed, the type's
\* freshness entry written during the call) returns metadata with
\* is_fresh = True.
C25_FreshAfterSuccessfulRefresh ==
    (/\ lastOp.op \in GetOps
     /\ lastOp.fetches = 1
     /\ lastOp.success
     /\ lastOp.committed
     /\ lastOp.metadata.last_update = isoformat(lastOp.at + tz))
        => lastOp.metadata.is_fresh


\* ------------------------------------------- store properties, the count
\* a step in which a save ran: it advanced its AUTOINCREMENT counter or
\* committed nothing
IsSaveStep(op) ==
    /\ lastOp'.op = op
    /\ nextId' # nextId \/ ~lastOp'.committed

\* the rows a save step left in a table whose counter stood at id0
NewRows(tbl, id0) == {r \in tbl : r.id > id0}

\* the number a save must return when it left the rows new of its batch
\* (0 when none; rows of one key in the batch count once each)
StoredCount(new, batch) == IF new = {} THEN 0 ELSE Len(batch)

\* C26: a save returns the number of rows of its batch that are stored when
\* it returns, and stores all or nothing: either every row of the batch is
\* in the table, or the table and data_freshness are as before and the save
\* returns 0.
C26_SaveCountsStoredRowsAllOrNothing ==
    [][/\ IsSaveStep("save_weather_forecast") =>
            LET new == NewRows(weather_forecasts', nextId.weather_forecasts)
            IN  /\ lastOp'.returned = StoredCount(new, lastOp'.batch)
                /\ new # {} =>
                      \A i \in DOMAIN lastOp'.batch : \E r \in new :
                          /\ r.location = lastOp'.batch[i].location
                          /\ r.start_time = lastOp'.batch[i].start_time
                /\ new = {} =>
                      /\ weather_forecasts' = weather_forecasts
                      /\ data_freshness' = data_freshness
       /\ IsSaveStep("save_earthquake_data") =>
            LET new == NewRows(earthquakes', nextId.earthquakes)
            IN  /\ lastOp'.returned = StoredCount(new, lastOp'.batch)
                /\ new # {} =>
                      \A i \in DOMAIN lastOp'.batch : \E r \in new :
                          r.earthquake_no = lastOp'.batch[i].earthquake_no
                /\ new = {} =>
                      /\ earthquakes' = earthquakes
                      /\ data_freshness' = data_freshness]_vars


\* ------------------------------------------------- get_database_status
\* get_data_freshness_info: one entry per row of data_freshness, with the
\* age of its last_update (in ticks)
get_data_freshness_info ==
    [t \in {r.data_type : r \in data_freshness} |->
        calculate_data_age(FreshnessOf(t).last_update, LocalNow)]

\* _get_data_age: float('inf') for a type without an entry
get_data_age(data_type) ==
    IF HasFreshness(data_type) THEN get_data_freshness_info[data_type]
    ELSE Infinity

\* WHERE called_at > datetime('now', '-24 hours')
CalledInLast24Hours ==
    {r \in api_logs :
        TextLess(CurrentTimestamp(now - TicksPerDay), r.called_at)}

\* get_database_stats, as the two entries _calculate_health_score reads
\* with their .get defaults: the success rate of the last 24 hours (0 when
\* no call was logged; kept to a whole percent) and the size of the file;
\* ok = FALSE: sqlite raises and the dictionary comes back empty
get_database_stats(db_size_mb, ok) ==
    LET total_calls == Cardinality(CalledInLast24Hours)
        successful_calls ==
            Cardinality({r \in CalledInLast24Hours : r.success})
    IN  IF ~ok THEN [api_success_rate |-> 100, db_size_mb |-> 0]
        ELSE [api_success_rate |->
                  IF total_calls > 0
                  THEN (successful_calls * 100) \div total_calls ELSE 0,
              db_size_mb |-> db_size_mb]

StatusSizes == {0, 300}

\* WeatherDataService.get_database_status()
get_database_status ==
    /\ ~health.computed
    /\ \E db_size_mb \in StatusSizes, ok \in BOOLEAN :
         \E db_stats \in {get_database_stats(db_size_mb, ok)} :
           health' = [computed |-> TRUE,
                      stats_ok |-> ok,
                      freshness_info |-> get_data_freshness_info,
                      db_stats |-> db_stats,
                      score |-> calculate_health_score(
                                    get_data_freshness_info, db_stats),
                      recommendations |->
                          get_recommendations(get_data_freshness_info)]
    /\ UNCHANGED <<now, tz, weather_forecasts, earthquakes, api_logs,
                   data_freshness, nextId, crawlers, lastOp, threads, http,
                   parse, catalog, frame>>

\* the store is written and aged, then its status is asked for
NextStatus ==
    \/ ~health.computed /\ NextStore
    \/ get_database_status

SpecStatus == InitStore /\ [][NextStatus]_vars

\* C27: with an entry for every data type, each within its threshold, a
\* database file under 100 MB and no call logged in the last 24 hours, the
\* health score is 100.
C27_HealthyWithoutCalls ==
    (/\ health.computed
     /\ health.stats_ok
     /\ DOMAIN health.freshness_info = DataTypes
     /\ \A t \in DataTypes :
           ~(health.freshness_info[t] > refresh_thresholds(t))
     /\ health.db_stats.db_size_mb < 100
     /\ CalledInLast24Hours = {})
        => health.score = 100 * ScoreScale


\* ------------------------------------ recommendations and the health score
\* the data types of freshness_info the refresh policy calls stale
StaleTypes(freshness_info) ==
    {t \in DOMAIN freshness_info :
        freshness_info[t] > refresh_thresholds(t)}

\* C28 (as claimed): when the recommendations are the single "all fresh"
\* message, no data type of freshness_info is stale (age > threshold) and
\* the staleness deduction of the health score is 0.
C28_AllFreshMeansNoStaleType ==
    (health.computed /\ health.recommendations = <<AllFresh>>) =>
        /\ StaleTypes(health.freshness_info) = {}
        /\ StalenessSum(health.freshness_info,
                        DOMAIN health.freshness_info) = 0

\* C28 (amended): when the recommendations are the single "all fresh"
\* message, no data type of freshness_info is older than twice its
\* threshold, and the staleness deduction is 10 for each stale type.
C28_AllFreshMeansNoVeryOldType ==
    (health.computed /\ health.recommendations = <<AllFresh>>) =>
        /\ \A t \in DOMAIN health.freshness_info :
              health.freshness_info[t] <= 2 * refresh_thresholds(t)
        /\ StalenessSum(health.freshness_info,
                        DOMAIN health.freshness_info)
              = 10 * Cardinality(StaleTypes(health.freshness_info))

\* C28 witness: "all fresh" is reported while both types are stale, each at
\* twice its threshold, and the score has lost 20 points for it.
C28_Witness ==
    /\ health.computed
    /\ health.recommendations = <<AllFresh>>
    /\ DOMAIN health.freshness_info = DataTypes
    /\ \A t \in DataTypes :
          health.freshness_info[t] = 2 * refresh_thresholds(t)
    /\ StaleTypes(health.freshness_info) = DataTypes
    /\ health.db_stats = [api_success_rate |-> 100, db_size_mb |-> 0]
    /\ health.score = 80 * ScoreScale


\* --------------------------------------------- types never refreshed
\* freshness_info with every data type in it, a type without an entry at
\* the age _get_data_age reports for it
AgesOfAllTypes == [t \in DataTypes |-> get_data_age(t)]

\* C29: a data type without a freshness entry is stale everywhere:
\* _needs_data_refresh is true for it, its reported age is infinite, and
\* the health score and the recommendations are those of a status in which
\* the type has that age.
C29_MissingEntryCountsAsStale ==
    (health.computed /\ \E t \in DataTypes : ~HasFreshness(t)) =>
        /\ \A t \in DataTypes :
              ~HasFreshness(t) =>
                  /\ needs_data_refresh(t, FALSE)
                  /\ get_data_age(t) = Infinity
        /\ health.score =
              calculate_health_score(AgesOfAllTypes, health.db_stats)
        /\ health.recommendations = get_recommendations(AgesOfAllTypes)


\* --------------------------------------- store properties, insertion time
\* C30: saving an earthquake whose earthquake_no is already stored keeps
\* the created_at of the stored row, so that reads and cleanup measure the
\* record's age from its first insertion.
C30_ReupsertKeepsCreatedAt ==
    [][(IsSaveStep("save_earthquake_data") /\ lastOp'.committed) =>
          \A old \in earthquakes :
              (\E i \in DOMAIN lastOp'.batch :
                   lastOp'.batch[i].earthquake_no = old.earthquake_no)
              => \E r \in earthquakes' :
                     /\ r.earthquake_no = old.earthquake_no
                     /\ r.created_at = old.created_at]_vars

====
